---- MODULE Spec2Model ----
(***************************************************************************)
(* Model of conagua-presas: downloader.py (descargar, combinar),           *)
(* tabla_estatal.py (plot_table) and the three candlestick scripts         *)
(* velas_individual.py, velas_multiple.py and velas_multiples.py.          *)
(*                                                                         *)
(* A datetime is a record [year, month, day]; datetime arithmetic goes     *)
(* through the proleptic Gregorian ordinal, as Python's datetime does.     *)
(* Text is a TLA+ string, handled with Len, SubSeq and \o.                 *)
(***************************************************************************)
EXTENDS Integers, Sequences, FiniteSets, TLC

VARIABLES
    hoy,                 \* datetime.today(): the current date (environment)
    archivos,            \* ./archivos: file name -> content written
    pc,                  \* position of descargar: inactivo, ciclo, fin, error
    anio,                \* parameter of the running descargar
    archivos_guardados,  \* os.listdir("./archivos") taken at the start of the run
    fecha_fin,           \* datetime.today() read at the start of the run
    i,                   \* loop variable of range(dias)
    bitacora,            \* history: one entry per iteration of the current run
    archivos0,           \* history: ./archivos as it was when the run started
    corrida,             \* history: number of runs started
    previas,             \* history: <<anio, fecha_fin>> of earlier runs that completed
    fallidas,            \* history: downloads that failed in an earlier run
    fallos,              \* number of failed downloads so far (bounded)
    data,                \* ./data: name of the yearly CSV -> its lines
    c_pc,                \* position of combinar: inactivo, leer, fin, error
    c_anio,              \* parameter of the running combinar
    c_pendientes,        \* names of os.listdir("./archivos") not iterated yet
    dfs,                 \* combinar.dfs: the DataFrames read, each with its file
    t_pc,                \* position of plot_table: inactivo, agrupar, ordenar, guardar, fin, error
    t_fecha,             \* datetime(año, mes, dia) of the running plot_table
    df,                  \* plot_table.df: the rows of the DataFrame
    imagen,              \* ./tabla_presas_<año>.png: the columns of the table written
    presas_api,          \* generar_catalogo: respuesta.json(), the records of the catalog date
    catalogo,            \* ./catalogo.csv: one row per reservoir
    anuales,             \* ./data as the candlestick scripts read it: name -> rows
    v_pc,                \* position of main: inactivo, candle, perc, combinar, fin, error
    v_script,            \* the script running: individual, multiple, multiples
    v_presas,            \* the reservoirs requested
    v_namo,              \* main.namo
    v_cargados,          \* history: the yearly files loaded, in the order read
    completo,            \* main.completo: the rows of the requested reservoirs
    v_total,             \* plot_candle: df["total"] as first computed, by date
    v_total_perc,        \* plot_candle_perc: df["total"] as first computed, by date
    png1,                \* ./1.png
    png2,                \* ./2.png
    resultado,           \* combinar_imagenes.resultado: the stacked image saved
    o_pc,                \* a second run of descargar, in another process: its position
    o_anio,              \* its parameter
    o_archivos_guardados,\* its os.listdir("./archivos")
    o_fecha_fin,         \* its datetime.today()
    o_i,                 \* its loop variable
    o_bitacora           \* history: one entry per iteration of the second run

varsCombinar == <<data, c_pc, c_anio, c_pendientes, dfs>>
varsTabla == <<t_pc, t_fecha, df, imagen>>
varsDescargar == <<hoy, archivos, pc, anio, archivos_guardados, fecha_fin, i, bitacora,
                   archivos0, corrida, previas, fallidas, fallos>>
varsVelas == <<presas_api, catalogo, anuales, v_pc, v_script, v_presas, v_namo, v_cargados, completo,
               v_total, v_total_perc, png1, png2, resultado>>
varsOtra == <<o_pc, o_anio, o_archivos_guardados, o_fecha_fin, o_i, o_bitacora>>
vars == <<varsDescargar, varsCombinar, varsTabla, varsVelas, varsOtra>>

\* No image written yet.
SinImagen == [nombre |-> "", width |-> 0, height |-> 0, velas |-> << >>, namo |-> 0]
SinResultado == [nombre |-> "", width |-> 0, height |-> 0, pegadas |-> << >>]

\* There is no second run of descargar.
SinOtraCorrida ==
    /\ o_pc = "inactivo"
    /\ o_anio = 0
    /\ o_archivos_guardados = {}
    /\ o_fecha_fin = [year |-> 0, month |-> 1, day |-> 1]
    /\ o_i = 0
    /\ o_bitacora = << >>

\* The candlestick scripts have not been started and have no input.
VelasInactivas ==
    /\ presas_api = << >>
    /\ catalogo = << >>
    /\ anuales = << >>
    /\ v_pc = "inactivo"
    /\ v_script = ""
    /\ v_presas = {}
    /\ v_namo = 0
    /\ v_cargados = << >>
    /\ completo = << >>
    /\ v_total = << >>
    /\ v_total_perc = << >>
    /\ png1 = SinImagen
    /\ png2 = SinImagen
    /\ resultado = SinResultado

(***************************************************************************)
(* Bounds of the model.                                                    *)
(***************************************************************************)
MaxDias == 3        \* today ranges over 1 January .. 1 January + MaxDias
MaxCorridas == 3    \* runs of descargar in one behaviour
MaxFallos == 2      \* failed downloads in one behaviour
MaxRegistros == 2   \* records in one daily file
MaxNamo == 1        \* largest namoalmac of a reading
MaxAlmacena == 2    \* largest almacenaactual of a reading

\* The year the script is run for (descargar(2024)).
AnioPrincipal == 2024

(***************************************************************************)
(* datetime                                                                *)
(***************************************************************************)
EsBisiesto(y) == (y % 4 = 0 /\ y % 100 # 0) \/ y % 400 = 0

DiasDelMes(y, m) ==
    IF m = 2 THEN (IF EsBisiesto(y) THEN 29 ELSE 28)
    ELSE IF m \in {4, 6, 9, 11} THEN 30 ELSE 31

\* Days before 1 January of year y.
DiasAntesDelAnio(y) ==
    (y - 1) * 365 + ((y - 1) \div 4) - ((y - 1) \div 100) + ((y - 1) \div 400)

RECURSIVE DiasAntesDelMes(_, _)
DiasAntesDelMes(y, m) ==
    IF m = 1 THEN 0 ELSE DiasAntesDelMes(y, m - 1) + DiasDelMes(y, m - 1)

datetime(y, m, d) == [year |-> y, month |-> m, day |-> d]

Ordinal(f) == DiasAntesDelAnio(f.year) + DiasAntesDelMes(f.year, f.month) + f.day

DeOrdinal(n) ==
    LET y == CHOOSE yy \in (n \div 366)..((n \div 365) + 1) :
                 DiasAntesDelAnio(yy) < n /\ n <= DiasAntesDelAnio(yy + 1)
        r == n - DiasAntesDelAnio(y)
        m == CHOOSE mm \in 1..12 :
                 DiasAntesDelMes(y, mm) < r /\ r <= DiasAntesDelMes(y, mm) + DiasDelMes(y, mm)
    IN  datetime(y, m, r - DiasAntesDelMes(y, m))

\* fecha + timedelta(days=n)
MasDias(f, n) == DeOrdinal(Ordinal(f) + n)

\* (a - b).days
DiferenciaDias(a, b) == Ordinal(a) - Ordinal(b)

(***************************************************************************)
(* Text                                                                    *)
(***************************************************************************)
RECURSIVE zfill(_, _)
zfill(s, w) == IF Len(s) >= w THEN s ELSE zfill("0" \o s, w)

str(n) == ToString(n)

\* f"{nueva_fecha.year}-{str(nueva_fecha.month).zfill(2)}-{str(nueva_fecha.day).zfill(2)}"
FechaStrSinCeros(f) == str(f.year) \o "-" \o str(f.month) \o "-" \o str(f.day)
FechaStr(f) ==
    str(f.year) \o "-" \o zfill(str(f.month), 2) \o "-" \o zfill(str(f.day), 2)

\* int(s) for a string of decimal digits; -1 when s is not one.
Digito(c) ==
    CASE c = "0" -> 0 [] c = "1" -> 1 [] c = "2" -> 2 [] c = "3" -> 3 [] c = "4" -> 4
      [] c = "5" -> 5 [] c = "6" -> 6 [] c = "7" -> 7 [] c = "8" -> 8 [] c = "9" -> 9
      [] OTHER -> -1

RECURSIVE ValorDecimal(_)
ValorDecimal(s) ==
    IF Len(s) = 0 THEN 0
    ELSE LET d == Digito(SubSeq(s, Len(s), Len(s)))
             r == ValorDecimal(SubSeq(s, 1, Len(s) - 1))
         IN  IF d < 0 \/ r < 0 THEN -1 ELSE 10 * r + d

\* sub in s
Contiene(sub, s) ==
    \E k \in 1..(Len(s) - Len(sub) + 1) : SubSeq(s, k, k + Len(sub) - 1) = sub

RECURSIVE lstrip(_)
lstrip(s) ==
    IF Len(s) > 0 /\ SubSeq(s, 1, 1) = " " THEN lstrip(SubSeq(s, 2, Len(s))) ELSE s

RECURSIVE rstrip(_)
rstrip(s) ==
    IF Len(s) > 0 /\ SubSeq(s, Len(s), Len(s)) = " "
    THEN rstrip(SubSeq(s, 1, Len(s) - 1)) ELSE s

strip(s) == rstrip(lstrip(s))

\* The first place of the character c in s from place desde on, Len(s) + 1 if none.
PosicionDe(c, s, desde) ==
    LET P == {k \in desde..Len(s) : SubSeq(s, k, k) = c}
    IN  IF P = {} THEN Len(s) + 1 ELSE CHOOSE k \in P : \A j \in P : k <= j

NombreArchivo(nueva_fecha_str) == nueva_fecha_str \o ".json"

URL_BASE == "https://sinav30.conagua.gob.mx:8080/PresasPG/presas/reporte/"
UrlNueva(nueva_fecha_str) == URL_BASE \o nueva_fecha_str

(***************************************************************************)
(* The server: the body of the response to the request of one day, or a    *)
(* failure (an error page instead of the data, or no response at all).     *)
(***************************************************************************)
Registro(fecha, nombre, namo, almacena) ==
    [fechamonitoreo |-> fecha, nombreoficial |-> nombre,
     namoalmac |-> namo, almacenaactual |-> almacena]

\* A body is text: a JSON list of records, or something that is not JSON.
CuerpoJson(regs) == [tipo |-> "json", registros |-> regs]
CuerpoError == [tipo |-> "html", registros |-> << >>]
\* requests.get raises: there is no response and no text.
Excepcion == [tipo |-> "excepcion", registros |-> << >>]

CuerpoDia(nueva_fecha_str) ==
    CuerpoJson(<<Registro(nueva_fecha_str, " Presa Calles, Ags. ", 340, 100)>>)

Respuestas(nueva_fecha_str) ==
    {CuerpoDia(nueva_fecha_str)}
        \cup (IF fallos < MaxFallos THEN {CuerpoError, Excepcion} ELSE {})

(***************************************************************************)
(* descargar(anio)                                                         *)
(***************************************************************************)
FechaInicio == datetime(anio, 1, 1)

\* Today included in the range.
FechaFinConHoy(t) == MasDias(t, 1)
\* fecha_fin = datetime.today()
FechaFin(t) == t

Dias == DiferenciaDias(fecha_fin, FechaInicio)

ListarVacio(dir) == {}
Listar(dir) == DOMAIN dir

DescargarSiempre(nombre_archivo, guardados) == TRUE
DebeDescargar(nombre_archivo, guardados) == nombre_archivo \notin guardados

EscribirVacio(dir, nombre, texto) ==
    [n \in DOMAIN dir \cup {nombre} |-> IF n = nombre THEN CuerpoJson(<< >>) ELSE dir[n]]
Escribir(dir, nombre, texto) ==
    [n \in DOMAIN dir \cup {nombre} |-> IF n = nombre THEN texto ELSE dir[n]]

Entrada(f, s, acc, txt) ==
    [fecha |-> f, url |-> UrlNueva(s), nombre |-> NombreArchivo(s),
     accion |-> acc, texto |-> txt]

\* The call: makedirs, listdir, the two dates, and the entry into the loop.
Descargar(a) ==
    /\ pc # "ciclo"
    /\ corrida < MaxCorridas
    /\ corrida' = corrida + 1
    /\ anio' = a
    /\ archivos_guardados' = Listar(archivos)
    /\ fecha_fin' = FechaFin(hoy)
    /\ i' = 0
    /\ pc' = "ciclo"
    /\ bitacora' = << >>
    /\ archivos0' = archivos
    /\ previas' = IF pc = "fin" THEN previas \cup {<<anio, fecha_fin>>} ELSE previas
    /\ fallidas' = fallidas \cup
          {[anio |-> anio, fecha |-> bitacora[k].fecha, causa |-> bitacora[k].accion] :
              k \in {j \in 1..Len(bitacora) :
                        \/ bitacora[j].accion = "excepcion"
                        \/ bitacora[j].accion = "descargado" /\ bitacora[j].texto.tipo # "json"}}
    /\ UNCHANGED <<hoy, archivos, fallos>>
    /\ UNCHANGED <<varsCombinar, varsTabla, varsVelas, varsOtra>>

\* One iteration of the loop.
Iterar ==
    /\ pc = "ciclo"
    /\ i < Dias
    /\ LET nueva_fecha == MasDias(FechaInicio, i)
           nueva_fecha_str == FechaStr(nueva_fecha)
           nombre_archivo == NombreArchivo(nueva_fecha_str)
       IN  IF ~DebeDescargar(nombre_archivo, archivos_guardados)
           THEN /\ bitacora' = Append(bitacora, Entrada(nueva_fecha, nueva_fecha_str, "saltado", Excepcion))
                /\ i' = i + 1
                /\ UNCHANGED <<archivos, pc, fallos, fallidas>>
           ELSE \E respuesta \in Respuestas(nueva_fecha_str) :
                /\ fallidas' = {f \in fallidas : ~(f.anio = anio /\ f.fecha = nueva_fecha)}
                /\ IF respuesta = Excepcion
                   THEN /\ bitacora' = Append(bitacora, Entrada(nueva_fecha, nueva_fecha_str, "excepcion", Excepcion))
                        /\ pc' = "error"
                        /\ fallos' = fallos + 1
                        /\ UNCHANGED <<archivos, i>>
                   ELSE /\ archivos' = Escribir(archivos, nombre_archivo, respuesta)
                        /\ bitacora' = Append(bitacora, Entrada(nueva_fecha, nueva_fecha_str, "descargado", respuesta))
                        /\ i' = i + 1
                        /\ fallos' = IF respuesta.tipo = "json" THEN fallos ELSE fallos + 1
                        /\ UNCHANGED pc
    /\ UNCHANGED <<hoy, anio, archivos_guardados, fecha_fin, archivos0, corrida, previas>>
    /\ UNCHANGED <<varsCombinar, varsTabla, varsVelas, varsOtra>>

\* range(dias) is exhausted: descargar returns.
Terminar ==
    /\ pc = "ciclo"
    /\ i >= Dias
    /\ pc' = "fin"
    /\ UNCHANGED <<hoy, archivos, anio, archivos_guardados, fecha_fin, i, bitacora,
                   archivos0, corrida, previas, fallidas, fallos>>
    /\ UNCHANGED <<varsCombinar, varsTabla, varsVelas, varsOtra>>

\* Midnight passes between two runs.
AvanzarDia ==
    /\ pc # "ciclo"
    /\ DiferenciaDias(hoy, datetime(AnioPrincipal, 1, 1)) < MaxDias
    /\ hoy' = MasDias(hoy, 1)
    /\ UNCHANGED <<archivos, pc, anio, archivos_guardados, fecha_fin, i, bitacora,
                   archivos0, corrida, previas, fallidas, fallos>>
    /\ UNCHANGED <<varsCombinar, varsTabla, varsVelas, varsOtra>>

Anios == {AnioPrincipal, AnioPrincipal + 1}

Init ==
    /\ hoy = datetime(AnioPrincipal, 1, 1)
    /\ archivos = << >>
    /\ pc = "inactivo"
    /\ anio = AnioPrincipal
    /\ archivos_guardados = {}
    /\ fecha_fin = hoy
    /\ i = 0
    /\ bitacora = << >>
    /\ archivos0 = << >>
    /\ corrida = 0
    /\ previas = {}
    /\ fallidas = {}
    /\ fallos = 0
    /\ data = << >>
    /\ c_pc = "inactivo"
    /\ c_anio = AnioPrincipal
    /\ c_pendientes = {}
    /\ dfs = << >>
    /\ t_pc = "inactivo"
    /\ t_fecha = datetime(AnioPrincipal, 1, 1)
    /\ df = << >>
    /\ imagen = [nombre |-> "", entidad |-> << >>, counts |-> << >>, namoalmac |-> << >>,
                 nivel |-> << >>, font_color |-> << >>]
    /\ VelasInactivas
    /\ SinOtraCorrida

Next ==
    \/ \E a \in Anios : Descargar(a)
    \/ Iterar
    \/ Terminar
    \/ AvanzarDia

Spec == Init /\ [][Next]_vars

(***************************************************************************)
(* The enumeration of the dates alone: one run of descargar for a past,    *)
(* the current or a future year, every request answered with the data.     *)
(***************************************************************************)
AniosFechas == {AnioPrincipal - 1, AnioPrincipal, AnioPrincipal + 1}

HoyFechas ==
    {MasDias(datetime(y, 1, 1), k) : y \in {AnioPrincipal, AnioPrincipal + 1}, k \in 0..MaxDias}

InitFechas ==
    /\ hoy \in HoyFechas
    /\ archivos = << >>
    /\ pc = "inactivo"
    /\ anio = AnioPrincipal
    /\ archivos_guardados = {}
    /\ fecha_fin = hoy
    /\ i = 0
    /\ bitacora = << >>
    /\ archivos0 = << >>
    /\ corrida = MaxCorridas - 1
    /\ previas = {}
    /\ fallidas = {}
    /\ fallos = MaxFallos
    /\ data = << >>
    /\ c_pc = "inactivo"
    /\ c_anio = AnioPrincipal
    /\ c_pendientes = {}
    /\ dfs = << >>
    /\ t_pc = "inactivo"
    /\ t_fecha = datetime(AnioPrincipal, 1, 1)
    /\ df = << >>
    /\ imagen = [nombre |-> "", entidad |-> << >>, counts |-> << >>, namoalmac |-> << >>,
                 nivel |-> << >>, font_color |-> << >>]
    /\ VelasInactivas
    /\ SinOtraCorrida

NextFechas ==
    \/ \E a \in AniosFechas : Descargar(a)
    \/ Iterar
    \/ Terminar

SpecFechas == InitFechas /\ [][NextFechas]_vars

(***************************************************************************)
(* Two runs of descargar in the same directory at the same time: the run   *)
(* above and a second one in another process, which executes the same      *)
(* code on its own local variables.  ./archivos and the server are shared. *)
(***************************************************************************)
FechaInicioOtra == datetime(o_anio, 1, 1)

DiasOtra == DiferenciaDias(o_fecha_fin, FechaInicioOtra)

\* An entry of the history of the second run; existia tells whether the file
\* was in ./archivos when the iteration ran.
EntradaOtra(f, s, acc, txt, e) ==
    [fecha |-> f, url |-> UrlNueva(s), nombre |-> NombreArchivo(s),
     accion |-> acc, texto |-> txt, existia |-> e]

\* The call of the second run: makedirs, listdir, the two dates.
DescargarOtra(a) ==
    /\ o_pc = "inactivo"
    /\ o_anio' = a
    /\ o_archivos_guardados' = Listar(archivos)
    /\ o_fecha_fin' = FechaFin(hoy)
    /\ o_i' = 0
    /\ o_pc' = "ciclo"
    /\ o_bitacora' = << >>
    /\ UNCHANGED <<varsDescargar, varsCombinar, varsTabla, varsVelas>>

\* One iteration of the loop of the second run.
IterarOtra ==
    /\ o_pc = "ciclo"
    /\ o_i < DiasOtra
    /\ LET nueva_fecha == MasDias(FechaInicioOtra, o_i)
           nueva_fecha_str == FechaStr(nueva_fecha)
           nombre_archivo == NombreArchivo(nueva_fecha_str)
           existia == nombre_archivo \in DOMAIN archivos
       IN  IF ~DebeDescargar(nombre_archivo, o_archivos_guardados)
           THEN /\ o_bitacora' = Append(o_bitacora,
                        EntradaOtra(nueva_fecha, nueva_fecha_str, "saltado", Excepcion, existia))
                /\ o_i' = o_i + 1
                /\ UNCHANGED <<archivos, o_pc, fallos>>
           ELSE \E respuesta \in Respuestas(nueva_fecha_str) :
                IF respuesta = Excepcion
                THEN /\ o_bitacora' = Append(o_bitacora,
                            EntradaOtra(nueva_fecha, nueva_fecha_str, "excepcion", Excepcion, existia))
                     /\ o_pc' = "error"
                     /\ fallos' = fallos + 1
                     /\ UNCHANGED <<archivos, o_i>>
                ELSE /\ archivos' = Escribir(archivos, nombre_archivo, respuesta)
                     /\ o_bitacora' = Append(o_bitacora,
                            EntradaOtra(nueva_fecha, nueva_fecha_str, "descargado", respuesta, existia))
                     /\ o_i' = o_i + 1
                     /\ fallos' = IF respuesta.tipo = "json" THEN fallos ELSE fallos + 1
                     /\ UNCHANGED o_pc
    /\ UNCHANGED <<hoy, pc, anio, archivos_guardados, fecha_fin, i, bitacora, archivos0,
                   corrida, previas, fallidas>>
    /\ UNCHANGED <<o_anio, o_archivos_guardados, o_fecha_fin>>
    /\ UNCHANGED <<varsCombinar, varsTabla, varsVelas>>

\* range(dias) is exhausted: the second run returns.
TerminarOtra ==
    /\ o_pc = "ciclo"
    /\ o_i >= DiasOtra
    /\ o_pc' = "fin"
    /\ UNCHANGED <<o_anio, o_archivos_guardados, o_fecha_fin, o_i, o_bitacora>>
    /\ UNCHANGED <<varsDescargar, varsCombinar, varsTabla, varsVelas>>

\* ./archivos before the two runs: empty, or with the file of 1 January.
ArchivosPrevios ==
    {<< >>,
     (NombreArchivo(FechaStr(datetime(AnioPrincipal, 1, 1)))
         :> CuerpoDia(FechaStr(datetime(AnioPrincipal, 1, 1))))}

InitConcurrente ==
    /\ hoy = MasDias(datetime(AnioPrincipal, 1, 1), MaxDias)
    /\ archivos \in ArchivosPrevios
    /\ pc = "inactivo"
    /\ anio = AnioPrincipal
    /\ archivos_guardados = {}
    /\ fecha_fin = hoy
    /\ i = 0
    /\ bitacora = << >>
    /\ archivos0 = << >>
    /\ corrida = MaxCorridas - 1
    /\ previas = {}
    /\ fallidas = {}
    /\ fallos = MaxFallos
    /\ data = << >>
    /\ c_pc = "inactivo"
    /\ c_anio = AnioPrincipal
    /\ c_pendientes = {}
    /\ dfs = << >>
    /\ t_pc = "inactivo"
    /\ t_fecha = datetime(AnioPrincipal, 1, 1)
    /\ df = << >>
    /\ imagen = [nombre |-> "", entidad |-> << >>, counts |-> << >>, namoalmac |-> << >>,
                 nivel |-> << >>, font_color |-> << >>]
    /\ VelasInactivas
    /\ SinOtraCorrida

NextConcurrente ==
    \/ \E a \in Anios : Descargar(a)
    \/ Iterar
    \/ Terminar
    \/ \E a \in Anios : DescargarOtra(a)
    \/ IterarOtra
    \/ TerminarOtra

SpecConcurrente == InitConcurrente /\ [][NextConcurrente]_vars

(***************************************************************************)
(* CSV, as pandas writes and reads it: a header line and one line per      *)
(* row, a field holding a comma put between double quotes.                 *)
(***************************************************************************)
Cabecera == "fechamonitoreo,nombreoficial,namoalmac,almacenaactual"

CampoCsv(s) ==
    IF Contiene(",", s) \/ Contiene("\"", s) THEN "\"" \o s \o "\"" ELSE s

LineaCsv(fila) ==
    CampoCsv(fila.fechamonitoreo) \o "," \o CampoCsv(fila.nombreoficial)
        \o "," \o str(fila.namoalmac) \o "," \o str(fila.almacenaactual)

\* DataFrame.to_csv(index=False); a DataFrame without rows has no columns here.
to_csv(filas) ==
    IF filas = << >> THEN <<"\"\"">>
    ELSE <<Cabecera>> \o [k \in 1..Len(filas) |-> LineaCsv(filas[k])]

RECURSIVE CamposCsv(_)
CamposCsv(linea) ==
    IF Len(linea) > 0 /\ SubSeq(linea, 1, 1) = "\""
    THEN LET q == PosicionDe("\"", linea, 2)
             resto == SubSeq(linea, q + 1, Len(linea))
         IN  IF Len(resto) = 0 THEN <<SubSeq(linea, 2, q - 1)>>
             ELSE <<SubSeq(linea, 2, q - 1)>> \o CamposCsv(SubSeq(resto, 2, Len(resto)))
    ELSE LET c == PosicionDe(",", linea, 1)
         IN  IF c > Len(linea) THEN <<linea>>
             ELSE <<SubSeq(linea, 1, c - 1)>> \o CamposCsv(SubSeq(linea, c + 1, Len(linea)))

(***************************************************************************)
(* combinar(anio)                                                          *)
(***************************************************************************)
NombreCsv(a) == str(a) \o ".csv"

SeleccionaTodo(a, archivo) == TRUE
\* str(año) in archivo
Selecciona(a, archivo) == Contiene(str(a), archivo)

\* pd.read_json of a file that holds a JSON list of records.
read_json(texto) == texto.registros

RECURSIVE Unicos(_)
Unicos(s) ==
    IF s = << >> THEN << >>
    ELSE LET r == Unicos(SubSeq(s, 1, Len(s) - 1))
         IN  IF \E k \in 1..Len(r) : r[k] = s[Len(s)] THEN r ELSE Append(r, s[Len(s)])
RECURSIVE concatUnicos(_)
concatUnicos(l) ==
    IF l = << >> THEN << >>
    ELSE Unicos(concatUnicos(SubSeq(l, 1, Len(l) - 1)) \o l[Len(l)].filas)
\* pd.concat(dfs, axis=0)
RECURSIVE concat(_)
concat(l) == IF l = << >> THEN << >> ELSE Head(l).filas \o concat(Tail(l))

LimpiarIzquierda(fila) ==
    [fila EXCEPT !.fechamonitoreo = lstrip(@), !.nombreoficial = lstrip(@)]
\* final[col].str.strip() for the columns of dtype object
Limpiar(fila) ==
    [fila EXCEPT !.fechamonitoreo = strip(@), !.nombreoficial = strip(@)]

\* The call: makedirs, the empty list and the listing the loop iterates.
Combinar(a) ==
    /\ c_pc \in {"inactivo", "fin", "error"}
    /\ c_anio' = a
    /\ c_pendientes' = Listar(archivos)
    /\ dfs' = << >>
    /\ c_pc' = "leer"
    /\ UNCHANGED <<data, varsDescargar, varsTabla, varsVelas, varsOtra>>

\* One iteration over os.listdir, which lists in no particular order.
LeerArchivo ==
    /\ c_pc = "leer"
    /\ \E archivo \in c_pendientes :
          /\ c_pendientes' = c_pendientes \ {archivo}
          /\ IF ~Selecciona(c_anio, archivo)
             THEN UNCHANGED <<dfs, c_pc>>
             ELSE IF archivos[archivo].tipo # "json"
             THEN c_pc' = "error" /\ UNCHANGED dfs
             ELSE /\ dfs' = Append(dfs, [archivo |-> archivo,
                                         filas |-> read_json(archivos[archivo])])
                  /\ UNCHANGED c_pc
    /\ UNCHANGED <<data, c_anio, varsDescargar, varsTabla, varsVelas, varsOtra>>

\* After the loop: concat, strip and to_csv; concat raises on an empty list.
Consolidar ==
    /\ c_pc = "leer"
    /\ c_pendientes = {}
    /\ IF dfs = << >>
       THEN c_pc' = "error" /\ UNCHANGED data
       ELSE LET final == concat(dfs)
                limpio == [k \in 1..Len(final) |-> Limpiar(final[k])]
                nombre == NombreCsv(c_anio)
            IN  /\ data' = [n \in DOMAIN data \cup {nombre} |->
                               IF n = nombre THEN to_csv(limpio) ELSE data[n]]
                /\ c_pc' = "fin"
    /\ UNCHANGED <<c_anio, c_pendientes, dfs, varsDescargar, varsTabla, varsVelas, varsOtra>>

\* The files descargar can have left in ./archivos: named after a date, and
\* holding what the server answered.
FechasCombinar ==
    {datetime(AnioPrincipal - 1, 12, 31), datetime(AnioPrincipal, 1, 1),
     datetime(AnioPrincipal, 1, 2)}

RegistrosDia(f) ==
    {Registro(FechaStr(f), " Calles, Ags. ", 1, 1),
     Registro(FechaStr(f), "Niagara, Ags.", 2, 0)}

SecuenciasHasta(S, n) == UNION {[1..k -> S] : k \in 0..n}

CuerposDia(f) ==
    {CuerpoError} \cup {CuerpoJson(r) : r \in SecuenciasHasta(RegistrosDia(f), MaxRegistros)}

ArchivosPosibles ==
    UNION {LET N == {NombreArchivo(FechaStr(f)) : f \in F}
               fechaDe == [n \in N |-> CHOOSE f \in F : NombreArchivo(FechaStr(f)) = n]
           IN  {dir \in [N -> UNION {CuerposDia(f) : f \in F}] :
                   \A n \in N : dir[n] \in CuerposDia(fechaDe[n])}
           : F \in SUBSET FechasCombinar}

InitCombinar ==
    /\ hoy = datetime(AnioPrincipal, 1, 3)
    /\ archivos \in ArchivosPosibles
    /\ pc = "inactivo"
    /\ anio = AnioPrincipal
    /\ archivos_guardados = {}
    /\ fecha_fin = hoy
    /\ i = 0
    /\ bitacora = << >>
    /\ archivos0 = << >>
    /\ corrida = 0
    /\ previas = {}
    /\ fallidas = {}
    /\ fallos = 0
    /\ data = << >>
    /\ c_pc = "inactivo"
    /\ c_anio = AnioPrincipal
    /\ c_pendientes = {}
    /\ dfs = << >>
    /\ t_pc = "inactivo"
    /\ t_fecha = datetime(AnioPrincipal, 1, 1)
    /\ df = << >>
    /\ imagen = [nombre |-> "", entidad |-> << >>, counts |-> << >>, namoalmac |-> << >>,
                 nivel |-> << >>, font_color |-> << >>]
    /\ VelasInactivas
    /\ SinOtraCorrida

NextCombinar ==
    \/ \E a \in AniosFechas : Combinar(a)
    \/ LeerArchivo
    \/ Consolidar

SpecCombinar == InitCombinar /\ [][NextCombinar]_vars

(***************************************************************************)
(* plot_table(anio, mes, dia, color)                                       *)
(***************************************************************************)
ENTIDADES ==
    ("Ags." :> "Aguascalientes") @@ ("B.C." :> "Baja California")
    @@ ("Chih." :> "Chihuahua") @@ ("Chis." :> "Chiapas") @@ ("Coah." :> "Coahuila")
    @@ ("Col." :> "Colima") @@ ("Dgo." :> "Durango") @@ ("Gro." :> "Guerrero")
    @@ ("Gto." :> "Guanajuato") @@ ("Hgo." :> "Hidalgo") @@ ("Jal." :> "Jalisco")
    @@ ("Mich." :> "Michoacán") @@ ("Mor." :> "Morelos")
    @@ ("Méx." :> "Estado de México") @@ ("N.L." :> "Nuevo León")
    @@ ("Nay." :> "Nayarit") @@ ("Oax." :> "Oaxaca") @@ ("Pue." :> "Puebla")
    @@ ("Qro." :> "Querétaro") @@ ("S.L.P." :> "San Luis Potosí")
    @@ ("Sin." :> "Sinaloa") @@ ("Son." :> "Sonora") @@ ("Tamps." :> "Tamaulipas")
    @@ ("Tlax." :> "Tlaxcala") @@ ("Ver." :> "Veracruz") @@ ("Zac." :> "Zacatecas")

\* The keys of a groupby come out sorted: the names of ENTIDADES in that order.
EntidadesOrdenadas ==
    <<"Aguascalientes", "Baja California", "Chiapas", "Chihuahua", "Coahuila",
      "Colima", "Durango", "Estado de México", "Guanajuato", "Guerrero", "Hidalgo",
      "Jalisco", "Michoacán", "Morelos", "Nayarit", "Nuevo León", "Oaxaca", "Puebla",
      "Querétaro", "San Luis Potosí", "Sinaloa", "Sonora", "Tamaulipas", "Tlaxcala",
      "Veracruz", "Zacatecas">>

\* x.split(",")[-1].strip()
UltimaParte(x) ==
    LET P == {k \in 1..Len(x) : SubSeq(x, k, k) = ","}
        u == IF P = {} THEN 0 ELSE CHOOSE k \in P : \A j \in P : j <= k
    IN  strip(SubSeq(x, u + 1, Len(x)))

\* parse_dates: the text 'YYYY-MM-DD' as a datetime
ParseFecha(s) ==
    datetime(ValorDecimal(SubSeq(s, 1, 4)), ValorDecimal(SubSeq(s, 6, 7)),
             ValorDecimal(SubSeq(s, 9, 10)))

\* pd.read_csv with usecols=cols, parse_dates and index_col
read_csv(lineas) ==
    [k \in 1..(Len(lineas) - 1) |->
        LET c == CamposCsv(lineas[k + 1])
        IN  [fechamonitoreo |-> ParseFecha(c[1]), nombreoficial |-> c[2],
             namoalmac |-> ValorDecimal(c[3]), almacenaactual |-> ValorDecimal(c[4])]]

SinFiltrar(filas, fecha) == filas
\* df[df.index == datetime(año, mes, dia)]
FiltrarDia(filas, fecha) == SelectSeq(filas, LAMBDA r : r.fechamonitoreo = fecha)

RECURSIVE Suma(_)
Suma(s) == IF s = << >> THEN 0 ELSE Head(s) + Suma(Tail(s))

\* A quotient of two sums times 100, kept exact: num / den.  den = 0 is the
\* float inf (num > 0) or NaN (num = 0).
Porcentaje(almacena, namo) == [num |-> almacena * 100, den |-> namo]
EsNaN(x) == x.den = 0 /\ x.num = 0
\* a > b and a >= b of floats: false when either is NaN
Mayor(a, b) == ~EsNaN(a) /\ ~EsNaN(b) /\ a.num * b.den > b.num * a.den
MayorIgual(a, b) == ~EsNaN(a) /\ ~EsNaN(b) /\ a.num * b.den >= b.num * a.den

\* value_counts and groupby("estado").sum(numeric_only=True): one row per state
Grupo(filas, e) ==
    LET g == SelectSeq(filas, LAMBDA r : r.estado = e)
    IN  [entidad |-> e, counts |-> Len(g),
         namoalmac |-> Suma([k \in 1..Len(g) |-> g[k].namoalmac]),
         almacenaactual |-> Suma([k \in 1..Len(g) |-> g[k].almacenaactual])]

Grupos(filas) ==
    LET presentes == {filas[k].estado : k \in 1..Len(filas)}
        claves == SelectSeq(EntidadesOrdenadas, LAMBDA e : e \in presentes)
    IN  [k \in 1..Len(claves) |-> Grupo(filas, claves[k])]

\* The national row with the NAMO of the first state only.
FilaNacionalParcial(grupos) ==
    [entidad |-> "Nacional",
     counts |-> Suma([k \in 1..Len(grupos) |-> grupos[k].counts]),
     namoalmac |-> IF grupos = << >> THEN 0 ELSE grupos[1].namoalmac,
     almacenaactual |-> Suma([k \in 1..Len(grupos) |-> grupos[k].almacenaactual])]
\* df.loc["Nacional"] = df.sum(axis=0)
FilaNacional(grupos) ==
    [entidad |-> "Nacional",
     counts |-> Suma([k \in 1..Len(grupos) |-> grupos[k].counts]),
     namoalmac |-> Suma([k \in 1..Len(grupos) |-> grupos[k].namoalmac]),
     almacenaactual |-> Suma([k \in 1..Len(grupos) |-> grupos[k].almacenaactual])]

ConNivel(fila) ==
    [entidad |-> fila.entidad, counts |-> fila.counts, namoalmac |-> fila.namoalmac,
     almacenaactual |-> fila.almacenaactual,
     nivel |-> Porcentaje(fila.almacenaactual, fila.namoalmac),
     text_color |-> IF fila.entidad = "Nacional" THEN "#ffff00" ELSE "#FFFFFF"]

\* The mean of the percentages of the rows, as a quotient.
RECURSIVE SumaCocientes(_)
SumaCocientes(s) ==
    IF s = << >> THEN [num |-> 0, den |-> 1]
    ELSE LET r == SumaCocientes(Tail(s))
         IN  [num |-> Head(s).num * r.den + r.num * Head(s).den, den |-> Head(s).den * r.den]

\* The percentage taken before the national row is added, so that the national
\* row gets the sum of the percentages of the states.
TablaNivelAntes(filas) ==
    LET g == Grupos(filas)
        n == [k \in 1..Len(g) |-> ConNivel(g[k])]
    IN  Append(n, [ConNivel(FilaNacional(g)) EXCEPT
                      !.nivel = SumaCocientes([k \in 1..Len(n) |-> n[k].nivel])])
\* Lines 93-110: counts, groupby, the national row, nivel and text_color.
Tabla(filas) ==
    LET g == Append(Grupos(filas), FilaNacional(Grupos(filas)))
    IN  [k \in 1..Len(g) |-> ConNivel(g[k])]

\* sort_values("nivel", ascending=False): a goes before b when its nivel is
\* greater, a NaN goes last, and rows of equal nivel come in either order.
VaAntesAscendente(a, b) == (~EsNaN(a.nivel) /\ EsNaN(b.nivel)) \/ Mayor(b.nivel, a.nivel)
VaAntes(a, b) == (~EsNaN(a.nivel) /\ EsNaN(b.nivel)) \/ Mayor(a.nivel, b.nivel)

Ordenaciones(d) ==
    {[k \in 1..Len(d) |-> d[p[k]]] :
        p \in {q \in [1..Len(d) -> 1..Len(d)] :
                 /\ \A j, k \in 1..Len(d) : j # k => q[j] # q[k]
                 /\ \A j, k \in 1..Len(d) : j < k => ~VaAntes(d[q[k]], d[q[j]])}}

NombreImagen(a) == "tabla_presas_" \o str(a) \o ".png"

\* The call (the script makes one): read_csv, the rows of the day and the
\* state of each row.
PlotTable(a, m, d) ==
    /\ t_pc = "inactivo"
    /\ t_fecha' = datetime(a, m, d)
    /\ IF NombreCsv(a) \notin DOMAIN data
       THEN t_pc' = "error" /\ df' = << >>
       ELSE IF data[NombreCsv(a)][1] # Cabecera
       THEN t_pc' = "error" /\ df' = << >>
       ELSE LET dia == FiltrarDia(read_csv(data[NombreCsv(a)]), datetime(a, m, d))
            IN  IF \E k \in 1..Len(dia) : UltimaParte(dia[k].nombreoficial) \notin DOMAIN ENTIDADES
                THEN t_pc' = "error" /\ df' = << >>
                ELSE /\ df' = [k \in 1..Len(dia) |->
                                 [nombreoficial |-> dia[k].nombreoficial,
                                  namoalmac |-> dia[k].namoalmac,
                                  almacenaactual |-> dia[k].almacenaactual,
                                  estado |-> ENTIDADES[UltimaParte(dia[k].nombreoficial)]]]
                     /\ t_pc' = "agrupar"
    /\ UNCHANGED <<imagen, varsDescargar, varsCombinar, varsVelas, varsOtra>>

Agrupar ==
    /\ t_pc = "agrupar"
    /\ df' = Tabla(df)
    /\ t_pc' = "ordenar"
    /\ UNCHANGED <<t_fecha, imagen, varsDescargar, varsCombinar, varsVelas, varsOtra>>

Ordenar ==
    /\ t_pc = "ordenar"
    /\ df' \in Ordenaciones(df)
    /\ t_pc' = "guardar"
    /\ UNCHANGED <<t_fecha, imagen, varsDescargar, varsCombinar, varsVelas, varsOtra>>

\* go.Table takes the columns of df one by one; write_image saves the figure.
Guardar ==
    /\ t_pc = "guardar"
    /\ imagen' = [nombre |-> NombreImagen(t_fecha.year),
                  entidad |-> [k \in 1..Len(df) |-> df[k].entidad],
                  counts |-> [k \in 1..Len(df) |-> df[k].counts],
                  namoalmac |-> [k \in 1..Len(df) |-> df[k].namoalmac],
                  nivel |-> [k \in 1..Len(df) |-> df[k].nivel],
                  font_color |-> [k \in 1..Len(df) |-> df[k].text_color]]
    /\ t_pc' = "fin"
    /\ UNCHANGED <<t_fecha, df, varsDescargar, varsCombinar, varsVelas, varsOtra>>

\* The yearly CSV as combinar leaves it: readings of four reservoirs on two days.
Lecturas(f, nombre) ==
    {<< >>} \cup {<<Registro(FechaStr(f), nombre, n, a)>> : n \in 0..MaxNamo, a \in 0..MaxAlmacena}

LecturaFija(f, nombre) == {<< >>, <<Registro(FechaStr(f), nombre, 1, 1)>>}

FilasPosibles ==
    LET f1 == datetime(AnioPrincipal, 1, 1)
        f2 == datetime(AnioPrincipal, 1, 2)
    IN  {l1 \o l2 \o l3 \o l4 \o l5 :
            l1 \in Lecturas(f1, " Calles, Ags. "), l2 \in Lecturas(f1, "Niagara, Ags."),
            l3 \in Lecturas(f1, "Morelos, B.C."), l4 \in LecturaFija(f1, "Laguna, Yuc."),
            l5 \in LecturaFija(f2, " Calles, Ags. ")}

InitTabla ==
    /\ hoy = datetime(AnioPrincipal, 1, 3)
    /\ archivos = << >>
    /\ pc = "inactivo"
    /\ anio = AnioPrincipal
    /\ archivos_guardados = {}
    /\ fecha_fin = hoy
    /\ i = 0
    /\ bitacora = << >>
    /\ archivos0 = << >>
    /\ corrida = 0
    /\ previas = {}
    /\ fallidas = {}
    /\ fallos = 0
    /\ \E filas \in FilasPosibles :
          data = (NombreCsv(AnioPrincipal) :> to_csv([k \in 1..Len(filas) |-> Limpiar(filas[k])]))
    /\ c_pc = "inactivo"
    /\ c_anio = AnioPrincipal
    /\ c_pendientes = {}
    /\ dfs = << >>
    /\ t_pc = "inactivo"
    /\ t_fecha = datetime(AnioPrincipal, 1, 1)
    /\ df = << >>
    /\ imagen = [nombre |-> "", entidad |-> << >>, counts |-> << >>, namoalmac |-> << >>,
                 nivel |-> << >>, font_color |-> << >>]
    /\ VelasInactivas
    /\ SinOtraCorrida

NextTabla ==
    \/ \E a \in Anios, d \in 1..2 : PlotTable(a, 1, d)
    \/ Agrupar
    \/ Ordenar
    \/ Guardar

SpecTabla == InitTabla /\ [][NextTabla]_vars

(***************************************************************************)
(* Helpers of the properties.                                              *)
(***************************************************************************)
Pedidas == {k \in 1..Len(bitacora) : bitacora[k].accion # "saltado"}
Escritas == {k \in 1..Len(bitacora) : bitacora[k].accion = "descargado"}
Saltadas == {k \in 1..Len(bitacora) : bitacora[k].accion = "saltado"}

\* The calendar day after f, by the calendar and not by the ordinal.
DiaSiguiente(f) ==
    IF f.day < DiasDelMes(f.year, f.month) THEN datetime(f.year, f.month, f.day + 1)
    ELSE IF f.month < 12 THEN datetime(f.year, f.month + 1, 1)
    ELSE datetime(f.year + 1, 1, 1)

\* s is the zero-padded 'YYYY-MM-DD' of the date f.
EsFechaISO(s, f) ==
    /\ Len(s) = 10
    /\ SubSeq(s, 5, 5) = "-"
    /\ SubSeq(s, 8, 8) = "-"
    /\ ValorDecimal(SubSeq(s, 1, 4)) = f.year
    /\ ValorDecimal(SubSeq(s, 6, 7)) = f.month
    /\ ValorDecimal(SubSeq(s, 9, 10)) = f.day

(***************************************************************************)
(* C1: in one run of descargar, a date of the range is requested if and    *)
(* only if its file is absent from ./archivos as listed at the start of    *)
(* the run; a file present then is neither requested nor rewritten and     *)
(* keeps its content.                                                      *)
(***************************************************************************)
C1_SaltaExistentes ==
    /\ \A k \in 1..Len(bitacora) :
          (k \in Pedidas) <=> (bitacora[k].nombre \notin DOMAIN archivos0)
    /\ \A n \in DOMAIN archivos0 :
          /\ n \in DOMAIN archivos
          /\ archivos[n] = archivos0[n]
          /\ \A k \in Pedidas : bitacora[k].nombre # n

C1_Testigo ==
    /\ pc = "fin"
    /\ Saltadas # {}
    /\ Escritas # {}

(***************************************************************************)
(* C2: descargar is idempotent: after a run of descargar(anio) that        *)
(* completed, a later run of descargar(anio) with the same current date    *)
(* issues no GET and leaves the files of ./archivos and their contents     *)
(* unchanged.                                                              *)
(***************************************************************************)
C2_Idempotente ==
    (pc # "inactivo" /\ <<anio, fecha_fin>> \in previas) =>
        /\ Pedidas = {}
        /\ archivos = archivos0

C2_Testigo ==
    /\ pc = "fin"
    /\ <<anio, fecha_fin>> \in previas
    /\ Len(bitacora) >= 2
    /\ \E n \in DOMAIN archivos : archivos[n].tipo = "json"

(***************************************************************************)
(* C3: descargar(anio) enumerates the days of the specified year only:     *)
(* the first date is 1 January of anio, each next date is the calendar     *)
(* day after the one before, and no date is on or after 1 January of       *)
(* anio + 1.                                                               *)
(***************************************************************************)
C3_SoloAnioEspecificado ==
    bitacora # << >> =>
        LET k == Len(bitacora)
            f == bitacora[k].fecha
        IN  /\ k = 1 => f = datetime(anio, 1, 1)
            /\ k > 1 => f = DiaSiguiente(bitacora[k - 1].fecha)
            /\ f.year = anio

(***************************************************************************)
(* C4: in one run at most one GET is issued per date; the date in the URL  *)
(* is the zero-padded 'YYYY-MM-DD' of the date, the same string as in the  *)
(* name of the file written; distinct dates give distinct file names; the  *)
(* content of the file is the body of the response to that request.        *)
(***************************************************************************)
C4_UnaPeticionPorFecha ==
    /\ \A j, k \in Pedidas :
          j # k => /\ bitacora[j].fecha # bitacora[k].fecha
                   /\ bitacora[j].url # bitacora[k].url
                   /\ bitacora[j].nombre # bitacora[k].nombre
    /\ \A k \in Pedidas :
          LET e == bitacora[k]
              s == SubSeq(e.url, Len(URL_BASE) + 1, Len(e.url))
          IN  /\ SubSeq(e.url, 1, Len(URL_BASE)) = URL_BASE
              /\ EsFechaISO(s, e.fecha)
              /\ e.nombre = s \o ".json"
    /\ \A k \in Escritas :
          /\ bitacora[k].nombre \in DOMAIN archivos
          /\ archivos[bitacora[k].nombre] = bitacora[k].texto

C4_Testigo ==
    /\ pc = "fin"
    /\ Cardinality(Escritas) >= 2
    /\ \E k \in Escritas : bitacora[k].texto.tipo = "json"

(***************************************************************************)
(* C5: a failed download is recovered by running again: when the download  *)
(* of a date failed in an earlier run for this year (the request raised,   *)
(* or the server answered with an error page), a later run for the same    *)
(* year requests that date again, so no such date is passed over by the    *)
(* loop.  fallidas holds the failures not requested again so far.          *)
(***************************************************************************)
C5_ReintentoRecupera ==
    \A f \in fallidas :
        (pc # "inactivo" /\ f.anio = anio) => DiferenciaDias(f.fecha, FechaInicio) >= i

\* The half of C5 that the code does: a request that raised is made again.
ReintentoTrasExcepcion ==
    \A f \in fallidas :
        (pc # "inactivo" /\ f.anio = anio /\ f.causa = "excepcion")
            => DiferenciaDias(f.fecha, FechaInicio) >= i

\* t is s without its leading and trailing blanks, said without strip.
EsRecorte(t, s) ==
    /\ Len(t) > 0 => SubSeq(t, 1, 1) # " " /\ SubSeq(t, Len(t), Len(t)) # " "
    /\ \E a \in 0..Len(s) : \E b \in 0..(Len(s) - a) :
          /\ SubSeq(s, a + 1, Len(s) - b) = t
          /\ \A k \in 1..a : SubSeq(s, k, k) = " "
          /\ \A k \in (Len(s) - b + 1)..Len(s) : SubSeq(s, k, k) = " "

\* The year in the name of a daily file.
AnioDelNombre(n) == ValorDecimal(SubSeq(n, 1, 4))
ArchivosDelAnio(a) == {n \in DOMAIN archivos : AnioDelNombre(n) = a}

RECURSIVE SumaRegistros(_)
SumaRegistros(N) ==
    IF N = {} THEN 0
    ELSE LET n == CHOOSE x \in N : TRUE
         IN  Len(archivos[n].registros) + SumaRegistros(N \ {n})

\* The records of the daily files, as stored, in the order combinar read the files.
RECURSIVE RegistrosEnOrden(_)
RegistrosEnOrden(l) ==
    IF l = << >> THEN << >>
    ELSE archivos[Head(l).archivo].registros \o RegistrosEnOrden(Tail(l))

(***************************************************************************)
(* C6: when combinar(anio) has written the yearly CSV, the daily files it  *)
(* loaded are all and only the files of ./archivos whose name carries a    *)
(* date of year anio, each loaded once.                                    *)
(***************************************************************************)
C6_SoloArchivosDelAnio ==
    c_pc = "fin" =>
        /\ {dfs[k].archivo : k \in 1..Len(dfs)} = ArchivosDelAnio(c_anio)
        /\ \A j, k \in 1..Len(dfs) : j # k => dfs[j].archivo # dfs[k].archivo
        /\ NombreCsv(c_anio) \in DOMAIN data

C6_Testigo ==
    /\ c_pc = "fin"
    /\ Len(dfs) >= 2
    /\ \E n \in DOMAIN archivos : AnioDelNombre(n) # c_anio
    /\ Len(data[NombreCsv(c_anio)]) >= 3

(***************************************************************************)
(* C7: round trip of the consolidation: the yearly CSV has one line per    *)
(* record of the selected daily files (none dropped, merged or             *)
(* de-duplicated), in the order read; a numeric field has the value of     *)
(* the daily file and a text field the daily value without its leading     *)
(* and trailing blanks.                                                    *)
(***************************************************************************)
C7_IdaYVuelta ==
    c_pc = "fin" =>
        LET lineas == data[NombreCsv(c_anio)]
            origen == RegistrosEnOrden(dfs)
        IN  /\ Len(lineas) = 1 + SumaRegistros(ArchivosDelAnio(c_anio))
            /\ Len(origen) = Len(lineas) - 1
            /\ \A k \in 1..Len(origen) :
                  LET c == CamposCsv(lineas[k + 1])
                  IN  /\ Len(c) = 4
                      /\ EsRecorte(c[1], origen[k].fechamonitoreo)
                      /\ EsRecorte(c[2], origen[k].nombreoficial)
                      /\ ValorDecimal(c[3]) = origen[k].namoalmac
                      /\ ValorDecimal(c[4]) = origen[k].almacenaactual

C7_Testigo ==
    /\ c_pc = "fin"
    /\ Len(dfs) >= 2
    /\ LET origen == RegistrosEnOrden(dfs)
       IN  /\ \E j, k \in 1..Len(origen) : j # k /\ origen[j] = origen[k]
           /\ \E k \in 1..Len(origen) :
                 origen[k].nombreoficial # strip(origen[k].nombreoficial)

\* The rows of the yearly CSV plot_table was called for, and those of its day.
FilasCsv == read_csv(data[NombreCsv(t_fecha.year)])
DelDia(F) == {k \in 1..Len(F) : F[k].fechamonitoreo = t_fecha}

TerminaCon(s, sufijo) ==
    Len(s) >= Len(sufijo) /\ SubSeq(s, Len(s) - Len(sufijo) + 1, Len(s)) = sufijo

\* The rows of the day whose nombreoficial ends with the abbreviation ab.
DelEstado(F, ab) == {k \in DelDia(F) : TerminaCon(F[k].nombreoficial, ab)}

RECURSIVE SumaIndices(_, _)
SumaIndices(K, s) ==
    IF K = {} THEN 0
    ELSE LET k == CHOOSE x \in K : TRUE IN s[k] + SumaIndices(K \ {k}, s)

NamoDe(F, K) == SumaIndices(K, [k \in 1..Len(F) |-> F[k].namoalmac])
AlmacenaDe(F, K) == SumaIndices(K, [k \in 1..Len(F) |-> F[k].almacenaactual])

\* x is the float n / d * 100.
EsPorcentaje(x, n, d) ==
    /\ x.num * d = 100 * n * x.den
    /\ x.den = 0 <=> d = 0
    /\ x.den = 0 => (x.num = 0 <=> n = 0)

FilasImagen == 1..Len(imagen.entidad)
FilasEstatales == {j \in FilasImagen : imagen.entidad[j] # "Nacional"}
FilasDe(e) == {j \in FilasImagen : imagen.entidad[j] = e}

(***************************************************************************)
(* C8: in the table plot_table writes, a state has a row exactly when      *)
(* records of the chosen date end with its abbreviation; the row shows     *)
(* counts = their number, namoalmac = the sum of their namoalmac and       *)
(* nivel = sum of almacenaactual / sum of namoalmac * 100; records of      *)
(* another date count in no row, and the counts of the state rows add up   *)
(* to the number of records of the date.                                   *)
(***************************************************************************)
C8_FilasPorEstado ==
    t_pc = "fin" =>
        LET C == FilasCsv IN
        /\ \A ab \in DOMAIN ENTIDADES :
              LET K == DelEstado(C, ab)
                  F == FilasDe(ENTIDADES[ab])
              IN  IF K = {} THEN F = {}
                  ELSE /\ Cardinality(F) = 1
                       /\ \A j \in F :
                             /\ imagen.counts[j] = Cardinality(K)
                             /\ imagen.namoalmac[j] = NamoDe(C, K)
                             /\ EsPorcentaje(imagen.nivel[j], AlmacenaDe(C, K), NamoDe(C, K))
        /\ SumaIndices(FilasEstatales, imagen.counts) = Cardinality(DelDia(C))

C8_Testigo ==
    /\ t_pc = "fin"
    /\ LET C == FilasCsv IN DelDia(C) # 1..Len(C)
    /\ Cardinality(FilasEstatales) >= 2
    /\ \E j \in FilasEstatales : imagen.counts[j] >= 2

(***************************************************************************)
(* C9: the 'Nacional' row is the national total: its counts, namoalmac     *)
(* and almacenaactual are the sums of the state rows and its nivel is      *)
(* national almacenaactual / national namoalmac * 100.                     *)
(***************************************************************************)
C9_FilaNacional ==
    t_pc = "fin" =>
        LET C == FilasCsv
            N == {k \in 1..Len(df) : df[k].entidad = "Nacional"}
            E == {k \in 1..Len(df) : df[k].entidad # "Nacional"}
        IN  /\ Cardinality(N) = 1
            /\ \A k \in N :
                  /\ df[k].counts = SumaIndices(E, [j \in 1..Len(df) |-> df[j].counts])
                  /\ df[k].namoalmac = SumaIndices(E, [j \in 1..Len(df) |-> df[j].namoalmac])
                  /\ df[k].almacenaactual =
                        SumaIndices(E, [j \in 1..Len(df) |-> df[j].almacenaactual])
                  /\ EsPorcentaje(df[k].nivel, AlmacenaDe(C, DelDia(C)), NamoDe(C, DelDia(C)))
                  /\ imagen.entidad[k] = "Nacional"
                  /\ imagen.counts[k] = Cardinality(DelDia(C))
                  /\ imagen.namoalmac[k] = NamoDe(C, DelDia(C))
                  /\ imagen.nivel[k] = df[k].nivel

C9_Testigo ==
    /\ t_pc = "fin"
    /\ Len(df) = 3
    /\ \E j, k \in 1..Len(df) :
          /\ df[j].entidad # "Nacional" /\ df[k].entidad # "Nacional"
          /\ Mayor(df[j].nivel, df[k].nivel)
          /\ df[k].namoalmac > 0

\* Each row of the table written carries the values of its own entity.
FilasIntegras ==
    LET C == FilasCsv IN
    /\ \A j, k \in FilasImagen : j # k => imagen.entidad[j] # imagen.entidad[k]
    /\ \A j \in FilasImagen :
          IF imagen.entidad[j] = "Nacional"
          THEN /\ imagen.font_color[j] = "#ffff00"
               /\ imagen.counts[j] = Cardinality(DelDia(C))
               /\ imagen.namoalmac[j] = NamoDe(C, DelDia(C))
               /\ EsPorcentaje(imagen.nivel[j], AlmacenaDe(C, DelDia(C)), NamoDe(C, DelDia(C)))
          ELSE /\ imagen.font_color[j] = "#FFFFFF"
               /\ \E ab \in DOMAIN ENTIDADES :
                     /\ ENTIDADES[ab] = imagen.entidad[j]
                     /\ imagen.counts[j] = Cardinality(DelEstado(C, ab))
                     /\ imagen.namoalmac[j] = NamoDe(C, DelEstado(C, ab))
                     /\ EsPorcentaje(imagen.nivel[j], AlmacenaDe(C, DelEstado(C, ab)),
                                     NamoDe(C, DelEstado(C, ab)))

(***************************************************************************)
(* C10, as claimed: the rows of the table, 'Nacional' included, are        *)
(* ordered by nivel from highest to lowest: of any two consecutive rows    *)
(* the upper one has nivel >= the lower one; each row keeps the entity,    *)
(* count, NAMO, percentage and colour of its entity.                       *)
(***************************************************************************)
C10_OrdenadoPorNivel ==
    t_pc = "fin" =>
        /\ \A k \in FilasImagen :
              k + 1 \in FilasImagen => MayorIgual(imagen.nivel[k], imagen.nivel[k + 1])
        /\ FilasIntegras

(***************************************************************************)
(* C10, amended: the rows whose nivel is defined are ordered by nivel      *)
(* from highest to lowest, and the rows whose nivel is undefined (0 / 0:   *)
(* NAMO total 0 and storage 0) come after all of them; each row keeps the  *)
(* entity, count, NAMO, percentage and colour of its entity.               *)
(***************************************************************************)
C10_OrdenadoNaNAlFinal ==
    t_pc = "fin" =>
        /\ \A j, k \in FilasImagen :
              j < k => \/ EsNaN(imagen.nivel[k])
                       \/ MayorIgual(imagen.nivel[j], imagen.nivel[k])
        /\ FilasIntegras

C10_Testigo ==
    /\ t_pc = "fin"
    /\ Len(imagen.entidad) = 3
    /\ imagen.entidad[2] = "Nacional"
    /\ Mayor(imagen.nivel[1], imagen.nivel[2])
    /\ Mayor(imagen.nivel[2], imagen.nivel[3])

(***************************************************************************)
(* The candlestick scripts: velas_individual.py, velas_multiple.py and     *)
(* velas_multiples.py.  Each has main, plot_candle, plot_candle_perc and   *)
(* combinar_imagenes; velas_multiples.py has main_estatal as well.         *)
(*                                                                         *)
(* A row of a yearly file is what read_csv(usecols=cols, parse_dates)      *)
(* gives: a date, the key of the reservoir, its storage and its NAMO.  A   *)
(* number plotted is kept exact, as a quotient num / den.                  *)
(***************************************************************************)
\* The almacenaactual of a row whose field is empty: read_csv gives NaN.
SinDato == -1

Fila(f, c, a, n) ==
    [fechamonitoreo |-> f, clavesih |-> c, almacenaactual |-> a, namoalmac |-> n]

\* A row of ./catalogo.csv.
Presa(c, nombre, n, e) ==
    [clavesih |-> c, nombrecomun |-> nombre, namoalmac |-> n, estado |-> e]

\* The float of an integer, and the float NaN.
Q(n) == [num |-> n, den |-> 1]
NaN == [num |-> 0, den |-> 0]

\* os.listdir lists in no particular order: the names by year, ascending or
\* descending, started at any place.
RECURSIVE EnOrden(_)
EnOrden(N) ==
    IF N = {} THEN << >>
    ELSE LET n == CHOOSE x \in N :
                      \A y \in N : ValorDecimal(SubSeq(x, 1, 4)) <= ValorDecimal(SubSeq(y, 1, 4))
         IN  <<n>> \o EnOrden(N \ {n})

Rotar(s, k) == [j \in 1..Len(s) |-> s[((j + k - 1) % Len(s)) + 1]]
Invertir(s) == [j \in 1..Len(s) |-> s[Len(s) + 1 - j]]

Listados(N) ==
    IF N = {} THEN {<< >>}
    ELSE {Rotar(s, k) : s \in {EnOrden(N), Invertir(EnOrden(N))}, k \in 0..(Cardinality(N) - 1)}

\* os.listdir("./data")[-15:]
UltimosArchivos == 15
Ultimos(s, n) == IF Len(s) <= n THEN s ELSE SubSeq(s, Len(s) - n + 1, Len(s))

\* df[df["clavesih"].isin(presas)]
Filtrar(filas, presas) == SelectSeq(filas, LAMBDA r : r.clavesih \in presas)

\* The loop over the yearly files and pd.concat(dfs, axis=0).
RECURSIVE Consolidado(_, _)
Consolidado(nombres, presas) ==
    IF nombres = << >> THEN << >>
    ELSE Filtrar(anuales[Head(nombres)], presas) \o Consolidado(Tail(nombres), presas)

RECURSIVE SumaNamo(_)
SumaNamo(cat) == IF cat = << >> THEN 0 ELSE Head(cat).namoalmac + SumaNamo(Tail(cat))

\* s.split(sep): the pieces of s between the occurrences of sep, left to right.
RECURSIVE split(_, _)
split(s, sep) ==
    LET P == {k \in 1..(Len(s) - Len(sep) + 1) : SubSeq(s, k, k + Len(sep) - 1) = sep}
    IN  IF P = {} THEN <<s>>
        ELSE LET k == CHOOSE x \in P : \A y \in P : x <= y
             IN  <<SubSeq(s, 1, k - 1)>> \o split(SubSeq(s, k + Len(sep), Len(s)), sep)

\* nombre.split(", "), which main unpacks into two names.  An empty field of
\* the catalog is read as NaN, which has no split: the name "" stands for it.
PartesNombre(nombre) == IF nombre = "" THEN << >> ELSE split(nombre, ", ")

\* nombre, estado = nombre.split(", ") and ENTIDADES[estado.strip()] (the keys
\* of ENTIDADES are those of tabla_estatal.py)
NombreValido(nombre) ==
    LET p == PartesNombre(nombre)
    IN  /\ Len(p) = 2
        /\ strip(p[2]) \in DOMAIN ENTIDADES

\* sep.join(partes)
RECURSIVE join(_, _)
join(sep, partes) ==
    IF partes = << >> THEN ""
    ELSE IF Len(partes) = 1 THEN partes[1]
    ELSE partes[1] \o sep \o join(sep, Tail(partes))

\* A value of the JSON of the API that may be null: None, or one string.
None == << >>
Texto(x) == <<x>>

\* ", ".join([item.strip() for item in x.split(",")]) if x is not None else x
LimpiarNombre(x) ==
    IF x = None THEN x
    ELSE LET partes == split(x[1], ",")
         IN  Texto(join(", ", [k \in 1..Len(partes) |-> strip(partes[k])]))

\* to_csv("./catalogo.csv") and the read_csv of the scripts: None and the
\* empty string are both written as an empty field, which is read as NaN.
CampoLeido(x) == IF x = None THEN "" ELSE x[1]

\* A record of the API on the catalog date, with the columns iloc[:, 2:-3]
\* drops (the date and the readings of the day) and those it keeps.
RegistroApi(c, nombre, n, e) ==
    [fechamonitoreo |-> "2024-01-01", clavesih |-> c, nombrecomun |-> nombre,
     estado |-> e, namoalmac |-> n, almacenaactual |-> 0]

\* generar_catalogo(): the records of 2024-01-01, the name cleaned, as
\* ./catalogo.csv.  It runs last in downloader.py, before the chart scripts.
GenerarCatalogo ==
    /\ presas_api # << >>
    /\ catalogo' = [k \in 1..Len(presas_api) |->
                      Presa(presas_api[k].clavesih,
                            CampoLeido(LimpiarNombre(presas_api[k].nombrecomun)),
                            presas_api[k].namoalmac, presas_api[k].estado)]
    /\ UNCHANGED <<presas_api, anuales, v_pc, v_script, v_presas, v_namo, v_cargados, completo,
                   v_total, v_total_perc, png1, png2, resultado>>
    /\ UNCHANGED <<varsDescargar, varsCombinar, varsTabla, varsOtra>>

\* The part the mains share: the files listed, read, filtered and concatenated.
\* pd.concat raises on an empty list.
Cargar(script, presas, namo) ==
    /\ v_script' = script
    /\ v_presas' = presas
    /\ v_namo' = namo
    /\ \E listado \in Listados(Listar(anuales)) :
          LET usados == IF script = "multiples" THEN Ultimos(listado, UltimosArchivos)
                        ELSE listado
          IN  /\ v_cargados' = usados
              /\ completo' = Consolidado(usados, presas)
              /\ v_pc' = IF usados = << >> THEN "error" ELSE "candle"
    /\ UNCHANGED <<presas_api, catalogo, anuales, v_total, v_total_perc, png1, png2, resultado>>

Abortar(script, presas) ==
    /\ v_script' = script
    /\ v_presas' = presas
    /\ v_pc' = "error"
    /\ UNCHANGED <<presas_api, catalogo, anuales, v_namo, v_cargados, completo, v_total, v_total_perc,
                   png1, png2, resultado>>

\* velas_individual.main(presa_id): namo is that of the first catalog row of
\* the reservoir; iloc[0] raises when there is none.
MainIndividual(presa_id) ==
    /\ v_pc = "inactivo"
    /\ LET cat == SelectSeq(catalogo, LAMBDA r : r.clavesih = presa_id)
       IN  IF cat = << >> THEN Abortar("individual", {presa_id})
           ELSE Cargar("individual", {presa_id}, cat[1].namoalmac)
    /\ UNCHANGED <<varsDescargar, varsCombinar, varsTabla, varsOtra>>

\* velas_multiple.main(titulo, *presas)
MainMultiple(presas) ==
    /\ v_pc = "inactivo"
    /\ LET cat == SelectSeq(catalogo, LAMBDA r : r.clavesih \in presas)
       IN  Cargar("multiple", presas, SumaNamo(cat))
    /\ UNCHANGED <<varsDescargar, varsCombinar, varsTabla, varsOtra>>

\* velas_multiples.main(titulo, lado, *presas)
MainMultiples(presas) ==
    /\ v_pc = "inactivo"
    /\ LET cat == SelectSeq(catalogo, LAMBDA r : r.clavesih \in presas)
       IN  IF \E k \in 1..Len(cat) : ~NombreValido(cat[k].nombrecomun)
           THEN Abortar("multiples", presas)
           ELSE Cargar("multiples", presas, SumaNamo(cat))
    /\ UNCHANGED <<varsDescargar, varsCombinar, varsTabla, varsOtra>>

\* velas_multiples.main_estatal(titulo, entidad, lado)
MainEstatal(entidad) ==
    /\ v_pc = "inactivo"
    /\ LET cat == SelectSeq(catalogo, LAMBDA r : r.estado = entidad)
           claves == {cat[k].clavesih : k \in 1..Len(cat)}
       IN  Cargar("multiples", claves, SumaNamo(cat))
    /\ UNCHANGED <<varsDescargar, varsCombinar, varsTabla, varsOtra>>

(***************************************************************************)
(* pivot_table and the total of each date                                  *)
(***************************************************************************)
ConDato(filas) == SelectSeq(filas, LAMBDA r : r.almacenaactual # SinDato)

RECURSIVE FechasEnOrden(_)
FechasEnOrden(F) ==
    IF F = {} THEN << >>
    ELSE LET f == CHOOSE x \in F : \A y \in F : Ordinal(x) <= Ordinal(y)
         IN  <<f>> \o FechasEnOrden(F \ {f})

\* aggfunc="first"
Primero(filas, f, c) ==
    LET g == SelectSeq(ConDato(filas), LAMBDA r : r.fechamonitoreo = f /\ r.clavesih = c)
    IN  IF g = << >> THEN SinDato ELSE g[1].almacenaactual
\* aggfunc="last": the last value listed for the date and the reservoir
Ultimo(filas, f, c) ==
    LET g == SelectSeq(ConDato(filas), LAMBDA r : r.fechamonitoreo = f /\ r.clavesih = c)
    IN  IF g = << >> THEN SinDato ELSE g[Len(g)].almacenaactual

\* df.pivot_table(index="fechamonitoreo", columns="clavesih",
\* values="almacenaactual", aggfunc="last"): one row per date that has a
\* value, in the order of the dates, one column per reservoir that has one.
pivot_table(filas) ==
    LET d == ConDato(filas)
        fechas == FechasEnOrden({d[k].fechamonitoreo : k \in 1..Len(d)})
        claves == {d[k].clavesih : k \in 1..Len(d)}
    IN  [k \in 1..Len(fechas) |->
            [fechamonitoreo |-> fechas[k],
             valores |-> [c \in claves |-> Ultimo(filas, fechas[k], c)]]]

\* sum(axis=1): a reservoir without a value on the date adds nothing.
RECURSIVE SumaFila(_)
SumaFila(v) ==
    IF DOMAIN v = {} THEN 0
    ELSE LET c == CHOOSE x \in DOMAIN v : TRUE
             resto == [x \in DOMAIN v \ {c} |-> v[x]]
         IN  (IF v[c] = SinDato THEN 0 ELSE v[c]) + SumaFila(resto)

\* df["total"] = df.sum(axis=1)
Totales(p) ==
    [k \in 1..Len(p) |-> [fechamonitoreo |-> p[k].fechamonitoreo,
                          total |-> Q(SumaFila(p[k].valores))]]

\* The NAMO of the rows of a date, as groupby(fechamonitoreo).sum adds it.
RECURSIVE NamoDiario(_, _)
NamoDiario(filas, f) ==
    IF filas = << >> THEN 0
    ELSE (IF Head(filas).fechamonitoreo = f THEN Head(filas).namoalmac ELSE 0)
            + NamoDiario(Tail(filas), f)

\* df["total"] = df.sum(axis=1) / namo_diario * 100
TotalesPorcentaje(p, filas) ==
    [k \in 1..Len(p) |->
        [fechamonitoreo |-> p[k].fechamonitoreo,
         total |-> Porcentaje(SumaFila(p[k].valores), NamoDiario(filas, p[k].fechamonitoreo))]]

(***************************************************************************)
(* The candles                                                             *)
(***************************************************************************)
Valores(t) == [k \in 1..Len(t) |-> t[k].total]

\* max and min of a column, NaN left out.
Maximo(v) == CHOOSE x \in {v[k] : k \in 1..Len(v)} : \A k \in 1..Len(v) : MayorIgual(x, v[k])
MayorDeTodos(v) == Maximo(v)
Minimo(v) == CHOOSE x \in {v[k] : k \in 1..Len(v)} : \A k \in 1..Len(v) : MayorIgual(v[k], x)

Vela(fecha, v) ==
    [fecha |-> fecha, open |-> v[1], close |-> v[Len(v)], high |-> Maximo(v), low |-> Minimo(v)]

VelaVacia(fecha) == [fecha |-> fecha, open |-> NaN, close |-> NaN, high |-> NaN, low |-> NaN]

\* for year in range(2010, 2025): for month in range(1, 13)
AnioDesde == 2010
AnioHasta == 2025
MesesDelRango ==
    [k \in 1..((AnioHasta - AnioDesde) * 12) |->
        [year |-> AnioDesde + ((k - 1) \div 12), month |-> ((k - 1) % 12) + 1]]

\* df[(df.index.year == year) & (df.index.month == month)]
DelMes(t, y, m) ==
    SelectSeq(t, LAMBDA r : r.fechamonitoreo.year = y /\ r.fechamonitoreo.month = m)

\* The loop of plot_candle: iloc[0] raises for a month without rows, and the
\* month is passed over.
VelasDelRango(t) ==
    LET meses == SelectSeq(MesesDelRango, LAMBDA ym : DelMes(t, ym.year, ym.month) # << >>)
    IN  [k \in 1..Len(meses) |->
            Vela(datetime(meses[k].year, meses[k].month, 1),
                 Valores(DelMes(t, meses[k].year, meses[k].month)))]

\* final / namo * 100
SinConvertir(x, namo) == x
EnPorcentaje(x, namo) == [num |-> x.num * 100, den |-> x.den * namo]

VelaEnPorcentaje(v, namo) ==
    [fecha |-> v.fecha, open |-> EnPorcentaje(v.open, namo), close |-> EnPorcentaje(v.close, namo),
     high |-> EnPorcentaje(v.high, namo), low |-> EnPorcentaje(v.low, namo)]

\* Insertion of x into the ascending sequence s.
RECURSIVE Insertar(_, _)
Insertar(x, s) ==
    IF s = << >> THEN <<x>>
    ELSE IF Mayor(x, Head(s)) THEN <<Head(s)>> \o Insertar(x, Tail(s))
    ELSE <<x>> \o s

RECURSIVE Ascendente(_)
Ascendente(v) == IF v = << >> THEN << >> ELSE Insertar(Head(v), Ascendente(Tail(v)))

\* The median of an odd number of values.
Mediana(v) == LET s == Ascendente(v) IN s[(Len(s) + 1) \div 2]

\* rolling(7): the window of a row is that row and the 6 rows before it.
Ventana == 7
FilasDeVentanaPorDias(t, k) ==
    SelectSeq(SubSeq(t, 1, k),
              LAMBDA r : Ordinal(t[k].fechamonitoreo) - Ordinal(r.fechamonitoreo) < Ventana)
FilasDeVentana(t, k) == SubSeq(t, k - Ventana + 1, k)

\* df.rolling(7).median(): NaN until the window is full or when it holds a NaN.
rolling_median(t) ==
    [k \in 1..Len(t) |->
        [fechamonitoreo |-> t[k].fechamonitoreo,
         total |-> IF k < Ventana THEN NaN
                   ELSE LET w == Valores(FilasDeVentana(t, k))
                        IN  IF \E j \in 1..Len(w) : EsNaN(w[j]) THEN NaN ELSE Mediana(w)]]

\* The months from the one of the first row to the one of the last row.
MesesEntre(a, b) ==
    [k \in 1..((b.year - a.year) * 12 + b.month - a.month + 1) |->
        [year |-> a.year + ((a.month + k - 2) \div 12), month |-> ((a.month + k - 2) % 12) + 1]]

\* df["total"].resample("MS").ohlc(): one row per month of the span, labelled
\* with its first day; NaN is left out, and a month without a value is NaN.
resample_ohlc(t) ==
    IF t = << >> THEN << >>
    ELSE LET meses == MesesEntre([year |-> t[1].fechamonitoreo.year,
                                  month |-> t[1].fechamonitoreo.month],
                                 [year |-> t[Len(t)].fechamonitoreo.year,
                                  month |-> t[Len(t)].fechamonitoreo.month])
         IN  [k \in 1..Len(meses) |->
                LET v == SelectSeq(Valores(DelMes(t, meses[k].year, meses[k].month)),
                                   LAMBDA x : ~EsNaN(x))
                    fecha == datetime(meses[k].year, meses[k].month, 1)
                IN  IF v = << >> THEN VelaVacia(fecha) ELSE Vela(fecha, v)]

\* The size of the figures: width=1280, height=720.
ANCHO == 1280
ALTO == 720

Png(nombre, velas, namo) ==
    [nombre |-> nombre, width |-> ANCHO, height |-> ALTO, velas |-> velas, namo |-> namo]

\* plot_candle(df, ...): the candles and fig.write_image("./1.png").  In
\* velas_individual and velas_multiple a chart without candles raises
\* (from_records has no column 'fecha'); what velas_multiples does with an
\* empty table is not fixed by its source.
PlotCandle ==
    /\ v_pc = "candle"
    /\ LET t == Totales(pivot_table(completo))
       IN  /\ v_total' = t
           /\ IF v_script = "multiples"
              THEN IF t = << >>
                   THEN \E sigue \in BOOLEAN :
                           IF sigue THEN png1' = Png("1.png", << >>, v_namo) /\ v_pc' = "perc"
                           ELSE v_pc' = "error" /\ UNCHANGED png1
                   ELSE /\ png1' = Png("1.png", resample_ohlc(rolling_median(t)), v_namo)
                        /\ v_pc' = "perc"
              ELSE IF VelasDelRango(t) = << >>
                   THEN v_pc' = "error" /\ UNCHANGED png1
                   ELSE /\ png1' = Png("1.png", VelasDelRango(t), v_namo)
                        /\ v_pc' = "perc"
    /\ UNCHANGED <<presas_api, catalogo, anuales, v_script, v_presas, v_namo, v_cargados, completo,
                   v_total_perc, png2, resultado>>
    /\ UNCHANGED <<varsDescargar, varsCombinar, varsTabla, varsOtra>>

\* plot_candle_perc(df, ...): the candles in percent and fig.write_image("./2.png").
PlotCandlePerc ==
    /\ v_pc = "perc"
    /\ IF v_script = "multiples"
       THEN LET t == TotalesPorcentaje(pivot_table(completo), completo)
            IN  /\ v_total_perc' = t
                /\ IF t = << >>
                   THEN \E sigue \in BOOLEAN :
                           IF sigue THEN png2' = Png("2.png", << >>, v_namo) /\ v_pc' = "combinar"
                           ELSE v_pc' = "error" /\ UNCHANGED png2
                   ELSE /\ png2' = Png("2.png", resample_ohlc(rolling_median(t)), v_namo)
                        /\ v_pc' = "combinar"
       ELSE LET t == Totales(pivot_table(completo))
                velas == VelasDelRango(t)
            IN  /\ v_total_perc' = t
                /\ IF velas = << >>
                   THEN v_pc' = "error" /\ UNCHANGED png2
                   ELSE /\ png2' = Png("2.png",
                                       [k \in 1..Len(velas) |-> VelaEnPorcentaje(velas[k], v_namo)],
                                       v_namo)
                        /\ v_pc' = "combinar"
    /\ UNCHANGED <<presas_api, catalogo, anuales, v_script, v_presas, v_namo, v_cargados, completo,
                   v_total, png1, resultado>>
    /\ UNCHANGED <<varsDescargar, varsCombinar, varsTabla, varsOtra>>

\* resultado.paste(im=imagen2, box=(0, imagen1.height * 1))
CajaEncima(imagen1) == <<0, 0>>
CajaSegunda(imagen1) == <<0, imagen1.height * 1>>

NombreResultado ==
    IF v_script = "individual"
    THEN "f" \o (CHOOSE c \in v_presas : TRUE) \o ".png"
    ELSE "final.png"

\* combinar_imagenes(): a canvas 1280 wide and as high as the two images
\* together, the first image pasted at the top and the second below it.
CombinarImagenes ==
    /\ v_pc = "combinar"
    /\ LET imagen1 == png1
           imagen2 == png2
           reusltado_ancho == ANCHO
           resultado_alto == imagen1.height + imagen2.height
       IN  resultado' =
              [nombre |-> NombreResultado, width |-> reusltado_ancho, height |-> resultado_alto,
               pegadas |-> <<[im |-> imagen1.nombre, box |-> <<0, 0>>,
                              width |-> imagen1.width, height |-> imagen1.height],
                             [im |-> imagen2.nombre, box |-> CajaSegunda(imagen1),
                              width |-> imagen2.width, height |-> imagen2.height]>>]
    /\ v_pc' = "fin"
    /\ UNCHANGED <<presas_api, catalogo, anuales, v_script, v_presas, v_namo, v_cargados, completo,
                   v_total, v_total_perc, png1, png2>>
    /\ UNCHANGED <<varsDescargar, varsCombinar, varsTabla, varsOtra>>

\* descargar, combinar and plot_table have not been started.
OtrosInactivos ==
    /\ hoy = datetime(AnioPrincipal, 1, 3)
    /\ archivos = << >>
    /\ pc = "inactivo"
    /\ anio = AnioPrincipal
    /\ archivos_guardados = {}
    /\ fecha_fin = hoy
    /\ i = 0
    /\ bitacora = << >>
    /\ archivos0 = << >>
    /\ corrida = 0
    /\ previas = {}
    /\ fallidas = {}
    /\ fallos = 0
    /\ data = << >>
    /\ c_pc = "inactivo"
    /\ c_anio = AnioPrincipal
    /\ c_pendientes = {}
    /\ dfs = << >>
    /\ t_pc = "inactivo"
    /\ t_fecha = datetime(AnioPrincipal, 1, 1)
    /\ df = << >>
    /\ imagen = [nombre |-> "", entidad |-> << >>, counts |-> << >>, namoalmac |-> << >>,
                 nivel |-> << >>, font_color |-> << >>]
    /\ SinOtraCorrida

(***************************************************************************)
(* The inputs of the candlestick scripts: the catalog and the yearly       *)
(* files.  The NAMO of a reservoir is the same in all its rows.            *)
(***************************************************************************)
MaxFilas == 3       \* rows of the requested reservoirs that vary in 2024.csv
MaxSerie == 8       \* dates of the long series
MaxAlto == 8        \* largest height of an image to stack, besides 720

CatalogoCompleto ==
    <<Presa("VBRMX", "Valle de Bravo, Méx.", 2, "Estado de México"),
      Presa("DBOMC", "El Bosque, Mich.", 1, "Michoacán"),
      Presa("ARCSO", "Adolfo Ruiz Cortines, Son.", 3, "Sonora")>>

NamoPresaDe(c) ==
    LET r == SelectSeq(CatalogoCompleto, LAMBDA x : x.clavesih = c) IN r[1].namoalmac

Lectura(f, c, a) == Fila(f, c, a, NamoPresaDe(c))

\* The catalog, or the catalog without the first reservoir.
CatalogosPosibles == {CatalogoCompleto, Tail(CatalogoCompleto)}

\* The reservoirs the scripts are run for.
Cutzamala == {"VBRMX", "DBOMC", "VVCMX"}

\* 2024.csv: up to MaxFilas rows of two requested reservoirs, in any order,
\* with repeated and empty readings, and a row of another reservoir.
FilasVariables ==
    {Lectura(datetime(AnioPrincipal, 1, 1), "VBRMX", 1),
     Lectura(datetime(AnioPrincipal, 1, 1), "VBRMX", 2),
     Lectura(datetime(AnioPrincipal, 1, 1), "VBRMX", SinDato),
     Lectura(datetime(AnioPrincipal, 1, 1), "DBOMC", 1),
     Lectura(datetime(AnioPrincipal, 1, 2), "VBRMX", 2),
     Lectura(datetime(AnioPrincipal, 2, 1), "VBRMX", 1)}

FilasFijas == <<Lectura(datetime(AnioPrincipal, 1, 1), "ARCSO", 3)>>

\* 2025.csv, when the year after has been downloaded and combined.
FilasSiguiente ==
    <<Lectura(datetime(AnioPrincipal + 1, 1, 1), "VBRMX", 1),
      Lectura(datetime(AnioPrincipal + 1, 1, 1), "ARCSO", 1)>>

AnualesPosibles ==
    {(NombreCsv(AnioPrincipal) :> (f \o FilasFijas)) : f \in SecuenciasHasta(FilasVariables, MaxFilas)}
    \cup
    {(NombreCsv(AnioPrincipal) :> (f \o FilasFijas)) @@ (NombreCsv(AnioPrincipal + 1) :> FilasSiguiente)
        : f \in SecuenciasHasta(FilasVariables, MaxFilas)}

VelasSinEmpezar ==
    /\ v_pc = "inactivo"
    /\ v_script = ""
    /\ v_presas = {}
    /\ v_namo = 0
    /\ v_cargados = << >>
    /\ completo = << >>
    /\ v_total = << >>
    /\ v_total_perc = << >>
    /\ png1 = SinImagen
    /\ png2 = SinImagen
    /\ resultado = SinResultado

InitVelas ==
    /\ OtrosInactivos
    /\ presas_api = << >>
    /\ catalogo \in CatalogosPosibles
    /\ anuales \in AnualesPosibles
    /\ VelasSinEmpezar

NextVelas ==
    \/ MainIndividual("VBRMX")
    \/ MainMultiple(Cutzamala)
    \/ MainMultiples(Cutzamala)
    \/ MainEstatal("Estado de México")
    \/ PlotCandle
    \/ PlotCandlePerc
    \/ CombinarImagenes

SpecVelas == InitVelas /\ [][NextVelas]_vars

(***************************************************************************)
(* A long series: one reservoir read on MaxSerie dates of two months, a    *)
(* day missing among them.                                                 *)
(***************************************************************************)
FechasSerie ==
    <<datetime(AnioPrincipal, 1, 24), datetime(AnioPrincipal, 1, 25), datetime(AnioPrincipal, 1, 26),
      datetime(AnioPrincipal, 1, 28), datetime(AnioPrincipal, 1, 29), datetime(AnioPrincipal, 1, 30),
      datetime(AnioPrincipal, 2, 1), datetime(AnioPrincipal, 2, 2), datetime(AnioPrincipal, 2, 3),
      datetime(AnioPrincipal, 2, 4)>>

SeriesPosibles ==
    {[k \in 1..MaxSerie |-> Lectura(FechasSerie[k], "VBRMX", v[k])] : v \in [1..MaxSerie -> 0..2]}

InitSerie ==
    /\ OtrosInactivos
    /\ presas_api = << >>
    /\ catalogo = CatalogoCompleto
    /\ anuales \in {(NombreCsv(AnioPrincipal) :> s) : s \in SeriesPosibles}
    /\ VelasSinEmpezar

NextSerie ==
    \/ MainIndividual("VBRMX")
    \/ MainMultiple(Cutzamala)
    \/ MainMultiples(Cutzamala)
    \/ PlotCandle
    \/ PlotCandlePerc
    \/ CombinarImagenes

SpecSerie == InitSerie /\ [][NextSerie]_vars

(***************************************************************************)
(* Many yearly files: one for each of the last 16 or 17 years.             *)
(***************************************************************************)
AnualDe(y) == <<Lectura(datetime(y, 1, 1), "VBRMX", 1)>>

AnualesDesde(y) == [n \in {NombreCsv(a) : a \in y..AnioPrincipal} |-> AnualDe(ValorDecimal(SubSeq(n, 1, 4)))]

InitListado ==
    /\ OtrosInactivos
    /\ presas_api = << >>
    /\ catalogo = CatalogoCompleto
    /\ anuales \in {AnualesDesde(AnioPrincipal - UltimosArchivos),
                    AnualesDesde(AnioPrincipal - UltimosArchivos - 1)}
    /\ VelasSinEmpezar

NextListado ==
    \/ MainMultiples(Cutzamala)
    \/ MainEstatal("Estado de México")
    \/ PlotCandle
    \/ PlotCandlePerc
    \/ CombinarImagenes

SpecListado == InitListado /\ [][NextListado]_vars

(***************************************************************************)
(* combinar_imagenes alone: two images of any height are on disk.          *)
(***************************************************************************)
AltosPosibles == (1..MaxAlto) \cup {ALTO}

InitImagenes ==
    /\ OtrosInactivos
    /\ presas_api = << >>
    /\ catalogo = CatalogoCompleto
    /\ anuales = << >>
    /\ v_pc = "combinar"
    /\ v_script \in {"individual", "multiple", "multiples"}
    /\ v_presas = {"VBRMX"}
    /\ v_namo = 0
    /\ v_cargados = << >>
    /\ completo = << >>
    /\ v_total = << >>
    /\ v_total_perc = << >>
    /\ png1 \in {[nombre |-> "1.png", width |-> ANCHO, height |-> h, velas |-> << >>, namo |-> 0]
                    : h \in AltosPosibles}
    /\ png2 \in {[nombre |-> "2.png", width |-> ANCHO, height |-> h, velas |-> << >>, namo |-> 0]
                    : h \in AltosPosibles}
    /\ resultado = SinResultado

NextImagenes == CombinarImagenes

SpecImagenes == InitImagenes /\ [][NextImagenes]_vars

(***************************************************************************)
(* generar_catalogo followed by velas_multiples.main: the names the API    *)
(* may give a reservoir.                                                   *)
(***************************************************************************)
NombresApi ==
    {Texto(" Valle de Bravo , Méx. "), Texto("El Bosque,Mich."), Texto("Villa Victoria, Méx."),
     Texto("Laguna de Yuriria"), Texto("El Cuchillo, Solidaridad, N.L."),
     Texto("Laguna, Yuc."), Texto(""), None}

RespuestasCatalogo ==
    {<<RegistroApi("VBRMX", n1, 2, "Estado de México"), RegistroApi("DBOMC", n2, 1, "Michoacán")>>
        : n1 \in NombresApi, n2 \in NombresApi}

PedidosPosibles == {{"VBRMX"}, {"DBOMC"}, {"VBRMX", "DBOMC"}}

InitCatalogo ==
    /\ OtrosInactivos
    /\ presas_api \in RespuestasCatalogo
    /\ catalogo = << >>
    /\ anuales = (NombreCsv(AnioPrincipal) :> FilasFijas)
    /\ VelasSinEmpezar

\* The scripts are run once ./catalogo.csv exists.
NextCatalogo ==
    \/ GenerarCatalogo
    \/ \E presas \in PedidosPosibles : catalogo # << >> /\ MainMultiples(presas)

SpecCatalogo == InitCatalogo /\ [][NextCatalogo]_vars

(***************************************************************************)
(* Helpers of the properties of the candlestick scripts.                   *)
(***************************************************************************)
\* plot_candle has written ./1.png.
Graficado == v_pc \in {"perc", "combinar", "fin"}
PorMeses == v_script \in {"individual", "multiple"}

\* The rows loaded that carry a value, and the months they fall in.
ConLectura == {k \in 1..Len(completo) : completo[k].almacenaactual # SinDato}
MesDe(f) == <<f.year, f.month>>
MesesConLectura == {MesDe(completo[k].fechamonitoreo) : k \in ConLectura}

\* The dates of the total that fall in the month ym, and the total of a date.
DiasDelTotal(t, ym) == {k \in 1..Len(t) : MesDe(t[k].fechamonitoreo) = ym}
VelasDe(png, ym) == {k \in 1..Len(png.velas) : png.velas[k].fecha = datetime(ym[1], ym[2], 1)}

\* The candle v is the open, high, low and close of the rows K of the total t.
EsOhlc(v, t, K) ==
    /\ \E k \in K : /\ \A j \in K : Ordinal(t[k].fechamonitoreo) <= Ordinal(t[j].fechamonitoreo)
                    /\ v.open = t[k].total
    /\ \E k \in K : /\ \A j \in K : Ordinal(t[k].fechamonitoreo) >= Ordinal(t[j].fechamonitoreo)
                    /\ v.close = t[k].total
    /\ \E k \in K : v.high = t[k].total /\ \A j \in K : MayorIgual(v.high, t[j].total)
    /\ \E k \in K : v.low = t[k].total /\ \A j \in K : MayorIgual(t[j].total, v.low)

\* The months of the years plot_candle iterates.
EnRango(ym) == AnioDesde <= ym[1] /\ ym[1] < AnioHasta

(***************************************************************************)
(* C11: in velas_individual and velas_multiple, the chart plot_candle      *)
(* writes has exactly one candle for every (year, month) in which a        *)
(* requested reservoir has a reading and none for any other month; the     *)
(* candle is dated the first of the month, its open is the total of the    *)
(* earliest date of the month, its close that of the latest, its high the  *)
(* largest and its low the smallest daily total of the month.              *)
(***************************************************************************)
C11_VelaPorMes ==
    (Graficado /\ PorMeses) =>
        /\ \A ym \in MesesConLectura :
              /\ Cardinality(VelasDe(png1, ym)) = 1
              /\ \A k \in VelasDe(png1, ym) :
                    EsOhlc(png1.velas[k], v_total, DiasDelTotal(v_total, ym))
        /\ \A k \in 1..Len(png1.velas) : \E ym \in MesesConLectura : k \in VelasDe(png1, ym)

\* The part of C11 that the code does: the same for the months of 2010 to 2024.
VelaPorMesDelRango ==
    (Graficado /\ PorMeses) =>
        /\ \A ym \in MesesConLectura :
              EnRango(ym) =>
                  /\ Cardinality(VelasDe(png1, ym)) = 1
                  /\ \A k \in VelasDe(png1, ym) :
                        EsOhlc(png1.velas[k], v_total, DiasDelTotal(v_total, ym))
        /\ \A k \in 1..Len(png1.velas) :
              \E ym \in MesesConLectura : EnRango(ym) /\ k \in VelasDe(png1, ym)
        /\ \A j, k \in 1..Len(png1.velas) :
              j < k => Ordinal(png1.velas[j].fecha) < Ordinal(png1.velas[k].fecha)

\* Two months charted, one of them with two dates, from rows listed out of order.
VelaPorMesVista ==
    /\ Graficado /\ PorMeses
    /\ Len(png1.velas) = 2
    /\ \E k \in 1..Len(png1.velas) : Mayor(png1.velas[k].close, png1.velas[k].open)
    /\ \E j, k \in 1..Len(completo) :
          j < k /\ Ordinal(completo[j].fechamonitoreo) > Ordinal(completo[k].fechamonitoreo)

\* The years of the yearly files of ./data, and the n most recent of them.
AniosPresentes == {ValorDecimal(SubSeq(n, 1, 4)) : n \in DOMAIN anuales}
MasRecientes(A, n) == {a \in A : Cardinality({b \in A : b > a}) < n}

(***************************************************************************)
(* C12: in velas_multiples, main and main_estatal load the last 15 years:  *)
(* when ./data holds more than 15 yearly files, the files loaded are       *)
(* exactly the 15 of the most recent years, whatever the order of the      *)
(* directory listing.                                                      *)
(***************************************************************************)
C12_UltimosQuince ==
    (v_script = "multiples" /\ v_pc \in {"candle", "perc", "combinar", "fin"}
        /\ Cardinality(DOMAIN anuales) > 15) =>
        /\ Len(v_cargados) = 15
        /\ {v_cargados[k] : k \in 1..Len(v_cargados)}
              = {NombreCsv(a) : a \in MasRecientes(AniosPresentes, 15)}

\* The part of C12 that the code does: 15 files of the listing are loaded, its last 15.
CargaQuince ==
    (v_script = "multiples" /\ v_pc \in {"candle", "perc", "combinar", "fin"}
        /\ Cardinality(DOMAIN anuales) > 15) =>
        /\ Len(v_cargados) = 15
        /\ \A j, k \in 1..Len(v_cargados) : j # k => v_cargados[j] # v_cargados[k]
        /\ \A k \in 1..Len(v_cargados) : v_cargados[k] \in DOMAIN anuales

\* The values the requested reservoirs have in the yearly files of the years A.
MesesLeidos(A) ==
    UNION {{MesDe(anuales[NombreCsv(a)][k].fechamonitoreo) :
               k \in {j \in 1..Len(anuales[NombreCsv(a)]) :
                        /\ anuales[NombreCsv(a)][j].clavesih \in v_presas
                        /\ anuales[NombreCsv(a)][j].almacenaactual # SinDato}}
           : a \in A}

(***************************************************************************)
(* C13: in velas_individual and velas_multiple the charts carry the        *)
(* monthly data of the last 15 years: every month of the 15 most recent    *)
(* years present in ./data in which a requested reservoir has a reading    *)
(* has a candle in the chart of plot_candle and in that of                 *)
(* plot_candle_perc.                                                       *)
(***************************************************************************)
C13_UltimosQuinceAnios ==
    (v_pc \in {"combinar", "fin"} /\ PorMeses) =>
        \A ym \in MesesLeidos(MasRecientes(AniosPresentes, 15)) :
            /\ VelasDe(png1, ym) # {}
            /\ VelasDe(png2, ym) # {}

\* The NAMO of the requested reservoirs that the catalog holds.
NamoCatalogo ==
    SumaIndices({k \in 1..Len(catalogo) : catalogo[k].clavesih \in v_presas},
                [k \in 1..Len(catalogo) |-> catalogo[k].namoalmac])

\* The integer a float of the chart of plot_candle stands for.
Entero(x) == x.num \div x.den

(***************************************************************************)
(* C14: in velas_individual and velas_multiple, the chart of               *)
(* plot_candle_perc has a candle for the same months as the chart of       *)
(* plot_candle, in the same order, and each open, high, low and close of   *)
(* it is the value of plot_candle * 100 / namo, namo being the NAMO of     *)
(* the requested reservoirs found in the catalog, which both titles show.  *)
(***************************************************************************)
C14_PorcentajeDelNamo ==
    (v_pc \in {"combinar", "fin"} /\ PorMeses) =>
        /\ png1.namo = NamoCatalogo
        /\ png2.namo = NamoCatalogo
        /\ Len(png2.velas) = Len(png1.velas)
        /\ \A k \in 1..Len(png1.velas) :
              LET a == png1.velas[k]
                  b == png2.velas[k]
              IN  /\ b.fecha = a.fecha
                  /\ a.open.den = 1 /\ a.high.den = 1 /\ a.low.den = 1 /\ a.close.den = 1
                  /\ EsPorcentaje(b.open, Entero(a.open), NamoCatalogo)
                  /\ EsPorcentaje(b.high, Entero(a.high), NamoCatalogo)
                  /\ EsPorcentaje(b.low, Entero(a.low), NamoCatalogo)
                  /\ EsPorcentaje(b.close, Entero(a.close), NamoCatalogo)

C14_Testigo ==
    /\ v_pc = "fin"
    /\ v_script = "multiple"
    /\ Len(catalogo) < Len(CatalogoCompleto)
    /\ Len(png2.velas) = 2
    /\ \E k \in 1..Len(png2.velas) : Mayor(png2.velas[k].high, png2.velas[k].low)

\* The rows loaded of the reservoir c on the date f that carry a value, and
\* the value of the one listed last.
LecturasDe(f, c) ==
    {k \in ConLectura : completo[k].fechamonitoreo = f /\ completo[k].clavesih = c}
UltimaLectura(f, c) ==
    LET K == LecturasDe(f, c)
    IN  completo[CHOOSE k \in K : \A j \in K : j <= k].almacenaactual
\* The requested reservoirs that count in the total of the date f.
Contadas(f) == {c \in v_presas : LecturasDe(f, c) # {}}

RECURSIVE SumaSobre(_, _)
SumaSobre(S, g) ==
    IF S = {} THEN 0
    ELSE LET c == CHOOSE x \in S : TRUE IN g[c] + SumaSobre(S \ {c}, g)

AlmacenadoEl(f) == SumaSobre(Contadas(f), [c \in Contadas(f) |-> UltimaLectura(f, c)])
\* The NAMO of the reservoirs counted on f, each taken once from one of its rows.
NamoContadoEl(f) ==
    SumaSobre(Contadas(f),
              [c \in Contadas(f) |-> completo[CHOOSE k \in LecturasDe(f, c) : TRUE].namoalmac])

(***************************************************************************)
(* C15: in velas_multiples.plot_candle_perc, the percentage of a date      *)
(* before smoothing is the sum of almacenaactual of the requested          *)
(* reservoirs counted in the total of the date, over the sum of namoalmac  *)
(* of those same reservoirs, each counted once, times 100; also when a     *)
(* reservoir has several rows on the date or a row without                 *)
(* almacenaactual.                                                         *)
(***************************************************************************)
C15_PorcentajeDiario ==
    (v_script = "multiples" /\ v_pc \in {"combinar", "fin"}) =>
        \A k \in 1..Len(v_total_perc) :
            LET f == v_total_perc[k].fechamonitoreo
            IN  EsPorcentaje(v_total_perc[k].total, AlmacenadoEl(f), NamoContadoEl(f))

\* The part of C15 that the code does: the same on a date on which every row
\* of a requested reservoir carries a value and no reservoir has two rows.
PorcentajeDiarioSinRepetir ==
    (v_script = "multiples" /\ v_pc \in {"combinar", "fin"}) =>
        \A k \in 1..Len(v_total_perc) :
            LET f == v_total_perc[k].fechamonitoreo
                K == {j \in 1..Len(completo) : completo[j].fechamonitoreo = f}
            IN  (/\ K \subseteq ConLectura
                 /\ \A a, b \in K : a # b => completo[a].clavesih # completo[b].clavesih)
                    => EsPorcentaje(v_total_perc[k].total, AlmacenadoEl(f), NamoContadoEl(f))

(***************************************************************************)
(* C16: combinar_imagenes stacks the two charts: the result is 1280 wide   *)
(* and as high as 1.png and 2.png together; 1.png is pasted at row 0 and   *)
(* covers the rows up to its height, 2.png is pasted at the row equal to   *)
(* the height of 1.png; the two do not overlap and together they cover     *)
(* every row of the result.                                                *)
(***************************************************************************)
C16_ApiladoVertical ==
    v_pc = "fin" =>
        LET p == resultado.pegadas
            filas1 == p[1].box[2]..(p[1].box[2] + p[1].height - 1)
            filas2 == p[2].box[2]..(p[2].box[2] + p[2].height - 1)
        IN  /\ resultado.width = 1280
            /\ resultado.height = png1.height + png2.height
            /\ Len(p) = 2
            /\ p[1].im = "1.png" /\ p[1].height = png1.height
            /\ p[2].im = "2.png" /\ p[2].height = png2.height
            /\ p[1].box = <<0, 0>>
            /\ p[2].box = <<0, png1.height>>
            /\ filas1 \cap filas2 = {}
            /\ filas1 \cup filas2 = 0..(resultado.height - 1)

C16_Testigo ==
    /\ v_pc = "fin"
    /\ png1.height > png2.height
    /\ png2.height > 1
    /\ resultado.height = png1.height + png2.height

AnioFuturoVisto == pc = "fin" /\ anio > hoy.year /\ bitacora = << >>

(***************************************************************************)
(* C18: in the three candlestick scripts, the total of a date is the sum   *)
(* over the requested reservoirs of one value each, the almacenaactual     *)
(* listed last for the reservoir and the date; a requested reservoir       *)
(* without a value on the date adds 0; every date on which a requested     *)
(* reservoir has a value has its total, and no other date has one.         *)
(***************************************************************************)
C18_TotalDiario ==
    Graficado =>
        /\ \A k \in 1..Len(v_total) :
              /\ Contadas(v_total[k].fechamonitoreo) # {}
              /\ v_total[k].total = Q(AlmacenadoEl(v_total[k].fechamonitoreo))
        /\ \A j \in ConLectura :
              Cardinality({k \in 1..Len(v_total) :
                              v_total[k].fechamonitoreo = completo[j].fechamonitoreo}) = 1
        /\ \A j \in 1..Len(completo) : completo[j].clavesih \in v_presas
        /\ \A n \in DOMAIN anuales : \A j \in 1..Len(anuales[n]) :
              (/\ \E k \in 1..Len(v_cargados) : v_cargados[k] = n
               /\ anuales[n][j].clavesih \in v_presas
               /\ anuales[n][j].almacenaactual # SinDato)
                 => \E k \in ConLectura : completo[k] = anuales[n][j]

C18_Testigo ==
    /\ Graficado
    /\ v_script = "multiples"
    /\ \E j, k \in ConLectura :
          /\ j < k
          /\ completo[j].fechamonitoreo = completo[k].fechamonitoreo
          /\ completo[j].clavesih = completo[k].clavesih
          /\ completo[j].almacenaactual > completo[k].almacenaactual
    /\ \E j \in 1..Len(completo) : \E k \in ConLectura :
          /\ completo[j].almacenaactual = SinDato
          /\ completo[j].fechamonitoreo = completo[k].fechamonitoreo
          /\ j > k
    /\ \E k \in 1..Len(v_total) : Contadas(v_total[k].fechamonitoreo) # v_presas

\* The median of the totals of the 7 rows of t that end at row k.
MedianaDe(t, k) ==
    LET W == (k - 6)..k
    IN  CHOOSE x \in {t[j].total : j \in W} :
            /\ Cardinality({j \in W : Mayor(x, t[j].total)}) <= 3
            /\ Cardinality({j \in W : Mayor(t[j].total, x)}) <= 3

\* The months from that of the first row of t to that of its last row.
MesesDeLaSerie(t) ==
    {ym \in (t[1].fechamonitoreo.year..t[Len(t)].fechamonitoreo.year) \X (1..12) :
        /\ Ordinal(datetime(ym[1], ym[2], DiasDelMes(ym[1], ym[2]))) >= Ordinal(t[1].fechamonitoreo)
        /\ Ordinal(datetime(ym[1], ym[2], 1)) <= Ordinal(t[Len(t)].fechamonitoreo)}

\* The chart png holds the monthly candles of the smoothed series of t.
EsSuavizado(png, t) ==
    /\ \A ym \in MesesDeLaSerie(t) : Cardinality(VelasDe(png, ym)) = 1
    /\ \A k \in 1..Len(png.velas) :
          /\ png.velas[k].fecha.day = 1
          /\ MesDe(png.velas[k].fecha) \in MesesDeLaSerie(t)
    /\ \A ym \in MesesDeLaSerie(t) : \A c \in VelasDe(png, ym) :
          LET K == {k \in DiasDelTotal(t, ym) : k >= 7}
              v == png.velas[c]
          IN  IF K = {}
              THEN EsNaN(v.open) /\ EsNaN(v.close) /\ EsNaN(v.high) /\ EsNaN(v.low)
              ELSE /\ \E k \in K : (\A j \in K : k <= j) /\ v.open = MedianaDe(t, k)
                   /\ \E k \in K : (\A j \in K : k >= j) /\ v.close = MedianaDe(t, k)
                   /\ \E k \in K : /\ v.high = MedianaDe(t, k)
                                   /\ \A j \in K : MayorIgual(v.high, MedianaDe(t, j))
                   /\ \E k \in K : /\ v.low = MedianaDe(t, k)
                                   /\ \A j \in K : MayorIgual(MedianaDe(t, j), v.low)

(***************************************************************************)
(* C19: in velas_multiples, the value of a date is the median of the       *)
(* totals of the 7 dated rows that end at it (rows, not calendar days),    *)
(* so the first 6 dates of the series have none; the chart has one candle  *)
(* per month of the series, dated the first of the month, whose open is    *)
(* the first, close the last, high the largest and low the smallest of     *)
(* the values of the dates of that month, and which is empty when the      *)
(* month has no value.                                                     *)
(***************************************************************************)
C19_MedianaDeSiete ==
    (v_script = "multiples" /\ v_pc \in {"combinar", "fin"} /\ v_total # << >>) =>
        /\ EsSuavizado(png1, v_total)
        /\ EsSuavizado(png2, v_total_perc)

C19_Testigo ==
    /\ v_script = "multiples"
    /\ v_pc = "fin"
    /\ Len(png1.velas) = 2
    /\ EsNaN(png1.velas[1].open)
    /\ Mayor(png1.velas[2].open, png1.velas[2].close)
    /\ \E k \in 2..Len(v_total) :
          Ordinal(v_total[k].fechamonitoreo) > Ordinal(v_total[k - 1].fechamonitoreo) + 1

\* The candle is drawn: none of its four values is NaN.
Dibujada(v) == ~EsNaN(v.open) /\ ~EsNaN(v.close) /\ ~EsNaN(v.high) /\ ~EsNaN(v.low)

EnOrdenOhlc(v) ==
    /\ MayorIgual(v.open, v.low) /\ MayorIgual(v.high, v.open)
    /\ MayorIgual(v.close, v.low) /\ MayorIgual(v.high, v.close)

\* The values of the candle lie between the smallest and the largest total of t.
DentroDe(v, t) ==
    /\ \E k \in 1..Len(t) : MayorIgual(v.low, t[k].total)
    /\ \E k \in 1..Len(t) : MayorIgual(t[k].total, v.high)

(***************************************************************************)
(* C20: every candle drawn by plot_candle or plot_candle_perc of any of    *)
(* the three scripts has low <= open <= high and low <= close <= high; in  *)
(* velas_multiples, where the values are rolling medians, its low is not   *)
(* below the smallest and its high not above the largest daily total of    *)
(* the series.                                                             *)
(***************************************************************************)
C20_VelaOrdenada ==
    /\ Graficado =>
          \A k \in 1..Len(png1.velas) :
              Dibujada(png1.velas[k]) =>
                  /\ EnOrdenOhlc(png1.velas[k])
                  /\ v_script = "multiples" => DentroDe(png1.velas[k], v_total)
    /\ v_pc \in {"combinar", "fin"} =>
          \A k \in 1..Len(png2.velas) :
              Dibujada(png2.velas[k]) =>
                  /\ EnOrdenOhlc(png2.velas[k])
                  /\ v_script = "multiples" => DentroDe(png2.velas[k], v_total_perc)

C20_Testigo ==
    /\ v_script = "multiples"
    /\ v_pc = "fin"
    /\ \E k \in 1..Len(png1.velas) :
          /\ Dibujada(png1.velas[k])
          /\ Mayor(png1.velas[k].high, png1.velas[k].low)
          /\ \E j \in 1..Len(v_total) : Mayor(v_total[j].total, png1.velas[k].high)

TablaPedida ==
    /\ t_pc # "inactivo"
    /\ NombreCsv(t_fecha.year) \in DOMAIN data
    /\ data[NombreCsv(t_fecha.year)][1] = Cabecera

\* The records of the chosen date whose last part is not a key of ENTIDADES.
SinEstado(F) == {k \in DelDia(F) : UltimaParte(F[k].nombreoficial) \notin DOMAIN ENTIDADES}

SinImagenDeTabla == imagen.nombre = "" /\ imagen.entidad = << >>

(***************************************************************************)
(* C22: plot_table produces a table for any day of the yearly CSV: the     *)
(* last comma-separated part of the nombreoficial of every record of the   *)
(* chosen date is a key of ENTIDADES and the call does not fail; a record  *)
(* whose last part is not one of the abbreviations makes it fail before    *)
(* any image is written.                                                   *)
(***************************************************************************)
C22_TablaParaCualquierDia ==
    TablaPedida =>
        /\ SinEstado(FilasCsv) = {}
        /\ t_pc # "error"
        /\ t_pc = "fin" => imagen.nombre = NombreImagen(t_fecha.year)

\* The second part alone: a record of the day without a state of ENTIDADES
\* makes plot_table fail, and no image is written; without such a record
\* plot_table does not fail.
FallaSinImagen ==
    TablaPedida =>
        IF SinEstado(FilasCsv) # {}
        THEN t_pc = "error" /\ SinImagenDeTabla
        ELSE t_pc # "error"

FallaVista ==
    /\ TablaPedida
    /\ t_pc = "error"
    /\ SinEstado(FilasCsv) # {}
    /\ DelDia(FilasCsv) \ SinEstado(FilasCsv) # {}

\* The catalog rows of the reservoirs main was called for.
PresasPedidas(cat) == {k \in 1..Len(cat) : cat[k].clavesih \in v_presas}

(***************************************************************************)
(* C23: every name generar_catalogo writes is accepted by                  *)
(* velas_multiples.main: split on ', ' it gives exactly two parts, a name  *)
(* and a key of ENTIDADES, for every entry of the catalog, so that main    *)
(* does not fail on the names of the reservoirs requested.                 *)
(***************************************************************************)
C23_NombresAceptados ==
    /\ \A k \in 1..Len(catalogo) :
          LET p == PartesNombre(catalogo[k].nombrecomun)
          IN  Len(p) = 2 /\ strip(p[2]) \in DOMAIN ENTIDADES
    /\ (v_script = "multiples" /\ v_pc # "inactivo") => v_pc # "error"

\* What does hold: a name of the API with one comma, whose second part
\* trimmed is a key of ENTIDADES, is accepted whatever its spacing, and main
\* fails exactly when one of the requested names is not of that kind.
UnaComaYEstado(x) ==
    /\ x # None
    /\ LET p == split(x[1], ",") IN Len(p) = 2 /\ strip(p[2]) \in DOMAIN ENTIDADES

NombresLimpiosAceptados ==
    /\ \A k \in 1..Len(catalogo) :
          UnaComaYEstado(presas_api[k].nombrecomun) <=> NombreValido(catalogo[k].nombrecomun)
    /\ (v_script = "multiples" /\ v_pc # "inactivo") =>
          (v_pc = "error" <=>
              \E k \in PresasPedidas(catalogo) : ~UnaComaYEstado(presas_api[k].nombrecomun))

\* A name accepted only because generar_catalogo cleaned it.
NombreLimpiadoVisto ==
    /\ v_script = "multiples" /\ v_pc = "candle"
    /\ \E k \in PresasPedidas(catalogo) :
          /\ ~NombreValido(presas_api[k].nombrecomun[1])
          /\ NombreValido(catalogo[k].nombrecomun)

PedidasOtra == {k \in 1..Len(o_bitacora) : o_bitacora[k].accion # "saltado"}
EscritasOtra == {k \in 1..Len(o_bitacora) : o_bitacora[k].accion = "descargado"}

(***************************************************************************)
(* C24: descargar never overwrites a daily file that exists in ./archivos  *)
(* at the moment it writes, also when the file appeared after the run      *)
(* started: of two runs for the same year in the same directory, no date   *)
(* is requested by both and no file written by one is written again by     *)
(* the other.                                                              *)
(***************************************************************************)
C24_NuncaSobrescribe ==
    /\ \A k \in EscritasOtra : ~o_bitacora[k].existia
    /\ (pc # "inactivo" /\ o_pc # "inactivo" /\ anio = o_anio) =>
          /\ \A j \in Pedidas : \A k \in PedidasOtra :
                bitacora[j].nombre # o_bitacora[k].nombre
          /\ \A j \in Escritas : \A k \in EscritasOtra :
                bitacora[j].nombre # o_bitacora[k].nombre

\* What the code does: each run passes over the files that were in its own
\* listing, taken when it started, and over no other.
SaltaLosListados ==
    /\ \A k \in 1..Len(o_bitacora) :
          (k \in PedidasOtra) <=> (o_bitacora[k].nombre \notin o_archivos_guardados)
    /\ \A k \in 1..Len(bitacora) :
          (k \in Pedidas) <=> (bitacora[k].nombre \notin archivos_guardados)

\* A file of the listing is passed over by the second run while the first
\* one is still in its loop.
SaltoEnSolapeVisto ==
    /\ pc = "ciclo" /\ o_pc = "ciclo" /\ anio = o_anio
    /\ Escritas # {}
    /\ \E k \in 1..Len(o_bitacora) : o_bitacora[k].accion = "saltado"
    /\ EscritasOtra # {}

TypeOK ==
    /\ pc \in {"inactivo", "ciclo", "fin", "error"}
    /\ i \in Nat
    /\ corrida \in 0..MaxCorridas
====
